---- MODULE Spec2Model ----
(***************************************************************************)
(* A model of the concurrent URL-redirection resolver of                   *)
(* go-gemini-grounded-search (client.go): resolveOriginURL,                *)
(* createResolveContext, urlResolveWorker and resolveGroundingURLs, and    *)
(* processGenaiResponse, which calls the resolver.                         *)
(*                                                                         *)
(* One batch is modelled: the orchestrator goroutine (pc), the numWorkers  *)
(* worker goroutines (worker), the two buffered channels (jobs, results),  *)
(* the contexts (parent and scoped) and a clock.  Time is counted in       *)
(* seconds.                                                                *)
(***************************************************************************)
EXTENDS Integers, Sequences, FiniteSets, TLC

\* ------------------------------------------------------------------ bounds

\* Longest attribution sequence enumerated for resolveGroundingURLs.
MaxLen == 2
\* Longest attribution sequence of the timed pool: one more job than workers.
PoolJobs == 9
\* Latest parent deadline, and latest time of the call, enumerated for
\* createResolveContext.
MaxParentDeadline == 25
MaxNow == 2

\* ------------------------------------------------------- program constants

\* client.go:420  const numWorkers = 8
numWorkers == 8
\* client.go:474/476  the 20 second cap of the batch
CapSeconds == 20
\* client.go:481  the budget when the parent carries no deadline
DefaultSeconds == 15
\* client.go:353/364  Timeout: 3 * time.Second of the probing client
ProbeTimeout == 3

\* ---------------------------------------------------------------- values

\* A context without a deadline (ctx.Deadline() answers ok = false).
NoDeadline == [ok |-> FALSE, at |-> 0]
\* A deadline at time t (ctx.Deadline() answers t, ok = true).
Deadline(t) == [ok |-> TRUE, at |-> t]

\* The URL strings attributions carry; "" is the empty URL.
URLs == {"", "http://a", "http://b"}

\* A URL string http.NewRequestWithContext cannot parse.
BadURL == ":bad"

\* The location a host answers with when it redirects.
Location(u) == IF u = "http://a" THEN "http://a2"
               ELSE IF u = "http://b" THEN "http://b2"
               ELSE u \o "/moved"

\* A relative Location header ("/rel") made absolute against the URL of the
\* request, as Response.Location does.
Relative(u) == u \o "/rel"

\* What the host answers: nothing (a transport error), or a response with a
\* status code and a Location header that is absent, malformed (it does not
\* parse), a target (an absolute URL) or relative.
NoAnswer == [kind |-> "none", status |-> 0, loc |-> "absent"]
TransportError == [kind |-> "error", status |-> 0, loc |-> "absent"]
Response(s, l) == [kind |-> "response", status |-> s, loc |-> l]

\* The outcomes a probe of the batch may have.
ProbeOutcomes ==
    { TransportError,
      Response(200, "absent"),
      Response(302, "target"),
      Response(302, "absent"),
      Response(302, "malformed") }

\* The outcomes a single call of resolveOriginURL is examined under: the
\* status codes around the 3xx class, each with every kind of Location header.
ProbeStatuses == {200, 299, 300, 302, 399, 400}
LocationKinds == {"absent", "malformed", "target", "relative"}
AllOutcomes ==
    {TransportError} \cup { Response(st, l) : st \in ProbeStatuses, l \in LocationKinds }

\* The parent contexts a batch is run under: no deadline, a deadline that
\* passes right now (0), one 5 seconds away and one 30 seconds away.  The
\* clock starts at 0.
ParentDeadlines == {NoDeadline} \cup { Deadline(t) : t \in {0, 5, 30} }

\* GroundingAttribution (types.go): Title, Domain, URL, Segments.  Title and
\* Domain are made distinct per position so that a reordering shows.
Attribution(i, u) ==
    [Title |-> "t" \o ToString(i), Domain |-> "d" \o ToString(i),
     URL |-> u, Segments |-> <<>>]

SeqsUpTo(S, n) == UNION { [1..k -> S] : k \in 0..n }

\* The scenario of the specification's section 8.
Scenario == <<"http://a", "http://b", "">>

\* The attribution sequences extractGroundingMetadata may hand over: every
\* sequence of at most MaxLen attributions, and the scenario.
Groundings ==
    { [i \in 1..Len(us) |-> Attribution(i, us[i])] :
        us \in SeqsUpTo(URLs, MaxLen) \cup {Scenario} }

\* ------------------------------------------------------------------ state

VARIABLES
    grounding,        \* the attribution slice (shared with the caller)
    orig,             \* its value when resolveGroundingURLs was called
    now,              \* the clock
    parentDeadline,   \* the deadline of ctx, or NoDeadline
    parentCancelled,  \* the caller cancelled ctx
    resolveDeadline,  \* the deadline of resolveCtx, or NoDeadline before it exists
    ownTimer,         \* resolveCtx is a context.WithTimeout child of ctx
    cancelled,        \* the cancel function of a WithTimeout child has run
    cancelCalls,      \* how often the deferred cancel has been invoked
    pc,               \* where the orchestrator is
    i,                \* the index of the send loop
    jobCount,         \* jobCount
    collected,        \* iterations of "for range jobCount" done
    jobs,             \* the jobs channel's buffer
    jobsClosed,       \* close(jobs) happened
    results,          \* the results channel's buffer
    chanCap,          \* the capacity of both channels
    worker,           \* the worker goroutines
    probed,           \* per index: probes started
    answer,           \* per index: what the probe got, or NoAnswer
    consumed,         \* per index: results the orchestrator received
    timedOut,         \* the orchestrator left through <-resolveCtx.Done()
    call,             \* what genai.GenerateContent gave, and c.config.NoRedirection
    ret,              \* what processGenaiResponse returns, or Pending
    invoked,          \* calls of resolveGroundingURLs made by processGenaiResponse
    httpClient,       \* c.httpClient: the caller's *http.Client, or nil
    clients,          \* per index: the client the probe was sent with
    latency,          \* per index: seconds the host takes to answer
    startedAt,        \* per index: when resolveOriginURL was called
    wired,            \* per index: the request went out to the host
    warnings,         \* the lines written with log.Printf, in order
    callerDeadline,   \* the deadline of the context the caller passed in
    requestTimeout    \* c.config.RequestTimeout, in seconds

vars == <<grounding, orig, now, parentDeadline, parentCancelled, resolveDeadline,
          ownTimer, cancelled, cancelCalls, pc, i, jobCount, collected, jobs,
          jobsClosed, results, chanCap, worker, probed, answer, consumed, timedOut,
          call, ret, invoked, httpClient, clients, latency, startedAt, wired,
          warnings, callerDeadline, requestTimeout>>

ctxVars == <<now, parentDeadline, parentCancelled, resolveDeadline, ownTimer,
             cancelled, cancelCalls>>
orchVars == <<pc, i, jobCount, collected, timedOut>>
ghostVars == <<probed, answer, consumed>>
wrapVars == <<call, ret, invoked>>
clientVars == <<httpClient, clients>>
timeVars == <<latency, startedAt, wired>>
logVars == <<warnings>>
genVars == <<callerDeadline, requestTimeout>>

\* ---------------------------------------------------------------- contexts

\* ctx.Done() is closed: the caller cancelled it or its deadline passed.
ParentDone ==
    parentCancelled \/ (parentDeadline.ok /\ now >= parentDeadline.at)

\* resolveCtx.Done() is closed.  A WithTimeout child is done when its own
\* deadline passed, its cancel ran, or the parent is done; when ctx itself
\* is reused, resolveCtx is ctx.
ResolveDone ==
    /\ resolveDeadline.ok
    /\ \/ ParentDone
       \/ ownTimer /\ (cancelled \/ now >= resolveDeadline.at)

\* context.WithTimeout(parent, d) at time t: the deadline is t + d, unless the
\* parent's deadline is earlier, which then stays.
WithTimeout(pd, t, d) ==
    IF pd.ok /\ pd.at < t + d THEN pd ELSE Deadline(t + d)

\* A scoped context that is detached from the parent: always a fresh
\* DefaultSeconds budget.
createResolveContextDetached(pd, t) ==
    [deadline |-> Deadline(t + DefaultSeconds), own |-> TRUE]

\* An allocator without the cap: a parent with a deadline is always reused.
createResolveContextNoCap(pd, t) ==
    IF pd.ok
    THEN [deadline |-> pd, own |-> FALSE]
    ELSE [deadline |-> WithTimeout(pd, t, DefaultSeconds), own |-> TRUE]

\* An allocator without the default: a parent without a deadline is reused,
\* and the batch has no deadline at all.
createResolveContextNoDefault(pd, t) ==
    IF pd.ok /\ pd.at - t > CapSeconds
    THEN [deadline |-> WithTimeout(pd, t, CapSeconds), own |-> TRUE]
    ELSE [deadline |-> pd, own |-> FALSE]

\* createResolveContext: the scoped deadline, and whether the context is a
\* fresh WithTimeout child (own = TRUE) or ctx itself with a no-op cancel.
createResolveContext(pd, t) ==
    IF pd.ok
    THEN LET remaining == pd.at - t
         IN  IF remaining > CapSeconds
             THEN [deadline |-> WithTimeout(pd, t, CapSeconds), own |-> TRUE]
             ELSE [deadline |-> pd, own |-> FALSE]
    ELSE [deadline |-> WithTimeout(pd, t, DefaultSeconds), own |-> TRUE]

\* ------------------------------------------------------- resolveOriginURL

\* An *http.Client: its Transport, Timeout (seconds) and CheckRedirect.
\* c.httpClient is nil unless the caller configured one.
NilClient ==
    [isNil |-> TRUE, Transport |-> "none", Timeout |-> 0, CheckRedirect |-> "none"]
\* A client the caller built: its own transport, a long timeout and the
\* default redirect policy (follow).
CustomClient ==
    [isNil |-> FALSE, Transport |-> "callerTransport", Timeout |-> 30,
     CheckRedirect |-> "follow"]
\* No probe was sent for the index.
NoClient ==
    [isNil |-> TRUE, Transport |-> "unsent", Timeout |-> 0, CheckRedirect |-> "unsent"]

\* A resolver that sets its policy and timeout on the caller's client and
\* probes with that.
NewProbeClientShared(custom) ==
    IF custom.isNil
    THEN [client |-> [isNil |-> FALSE, Transport |-> "DefaultTransport",
                      Timeout |-> ProbeTimeout,
                      CheckRedirect |-> "ErrUseLastResponse"],
          custom |-> custom]
    ELSE LET c == [custom EXCEPT !.Timeout = ProbeTimeout,
                                 !.CheckRedirect = "ErrUseLastResponse"]
         IN  [client |-> c, custom |-> c]

\* client.go:348-366: the client a call of resolveOriginURL probes with, and
\* the caller's client after the call.  With a custom client a new client is
\* made of its Transport; without one the new client has no Transport, which
\* is http.DefaultTransport.
NewProbeClient(custom) ==
    IF custom.isNil
    THEN [client |-> [isNil |-> FALSE, Transport |-> "DefaultTransport",
                      Timeout |-> ProbeTimeout,
                      CheckRedirect |-> "ErrUseLastResponse"],
          custom |-> custom]
    ELSE [client |-> [isNil |-> FALSE, Transport |-> custom.Transport,
                      Timeout |-> ProbeTimeout,
                      CheckRedirect |-> "ErrUseLastResponse"],
          custom |-> custom]

\* client.Do(req) given the host's answer: a client whose CheckRedirect gives
\* http.ErrUseLastResponse hands the first response over; any other follows a
\* redirect with a location and hands over the page it ends on.
ClientDo(client, out) ==
    IF client.CheckRedirect = "ErrUseLastResponse" THEN out
    ELSE IF /\ out.kind = "response"
            /\ out.status >= 300 /\ out.status <= 399
            /\ out.loc \in {"target", "relative"}
         THEN Response(200, "absent")
         ELSE out

\* A probing client without CheckRedirect follows the redirect itself, and
\* the answer seen is never a redirect: the original URL comes back.
resolveOriginURLFollowing(urlStr, out) ==
    IF urlStr = BadURL \/ out.kind = "error"
    THEN [url |-> "", err |-> TRUE]
    ELSE [url |-> urlStr, err |-> FALSE]

\* A resolver that chases the location one hop further.
resolveOriginURLTwoHops(urlStr, out) ==
    IF urlStr = BadURL \/ out.kind = "error"
    THEN [url |-> "", err |-> TRUE]
    ELSE IF out.status >= 300 /\ out.status <= 399
         THEN IF out.loc = "absent" THEN [url |-> urlStr, err |-> FALSE]
              ELSE IF out.loc = "malformed" THEN [url |-> "", err |-> TRUE]
              ELSE IF out.loc = "relative"
                   THEN [url |-> Location(Relative(urlStr)), err |-> FALSE]
                   ELSE [url |-> Location(Location(urlStr)), err |-> FALSE]
         ELSE [url |-> urlStr, err |-> FALSE]

\* A resolver for which every failure of Response.Location is an error,
\* http.ErrNoLocation included.
resolveOriginURLStrictLocation(urlStr, out) ==
    IF urlStr = BadURL \/ out.kind = "error"
    THEN [url |-> "", err |-> TRUE]
    ELSE IF out.status >= 300 /\ out.status <= 399
         THEN IF out.loc \in {"absent", "malformed"} THEN [url |-> "", err |-> TRUE]
              ELSE IF out.loc = "relative"
                   THEN [url |-> Relative(urlStr), err |-> FALSE]
                   ELSE [url |-> Location(urlStr), err |-> FALSE]
         ELSE [url |-> urlStr, err |-> FALSE]

\* A resolver that reads the Location header whatever the status code is.
resolveOriginURLAnyStatus(urlStr, out) ==
    IF urlStr = BadURL \/ out.kind = "error"
    THEN [url |-> "", err |-> TRUE]
    ELSE IF out.loc = "absent" THEN [url |-> urlStr, err |-> FALSE]
         ELSE IF out.loc = "malformed" THEN [url |-> "", err |-> TRUE]
         ELSE IF out.loc = "relative"
              THEN [url |-> Relative(urlStr), err |-> FALSE]
              ELSE [url |-> Location(urlStr), err |-> FALSE]

\* A resolver that answers a failed request with the original URL and no
\* error.
resolveOriginURLSwallow(urlStr, out) ==
    IF urlStr = BadURL \/ out.kind = "error"
    THEN [url |-> urlStr, err |-> FALSE]
    ELSE IF out.status >= 300 /\ out.status <= 399
         THEN IF out.loc = "absent" THEN [url |-> urlStr, err |-> FALSE]
              ELSE IF out.loc = "malformed" THEN [url |-> "", err |-> TRUE]
              ELSE IF out.loc = "relative"
                   THEN [url |-> Relative(urlStr), err |-> FALSE]
                   ELSE [url |-> Location(urlStr), err |-> FALSE]
         ELSE [url |-> urlStr, err |-> FALSE]

\* A resolver that reads the Location header itself
\* (resp.Header.Get("Location")): a 3xx answer without the header gives the
\* empty string and no error.
resolveOriginURLRawLocation(urlStr, out) ==
    IF urlStr = BadURL \/ out.kind = "error"
    THEN [url |-> "", err |-> TRUE]
    ELSE IF out.status >= 300 /\ out.status <= 399
         THEN IF out.loc = "absent" THEN [url |-> "", err |-> FALSE]
              ELSE IF out.loc = "malformed" THEN [url |-> "", err |-> TRUE]
              ELSE IF out.loc = "relative"
                   THEN [url |-> Relative(urlStr), err |-> FALSE]
                   ELSE [url |-> Location(urlStr), err |-> FALSE]
         ELSE [url |-> urlStr, err |-> FALSE]

\* A resolver that answers a non-redirect with the URL of the request in its
\* normal form (resp.Request.URL.String()), which ends in a slash.
resolveOriginURLNormalised(urlStr, out) ==
    IF urlStr = BadURL \/ out.kind = "error"
    THEN [url |-> "", err |-> TRUE]
    ELSE IF out.status >= 300 /\ out.status <= 399
         THEN IF out.loc = "absent" THEN [url |-> urlStr, err |-> FALSE]
              ELSE IF out.loc = "malformed" THEN [url |-> "", err |-> TRUE]
              ELSE IF out.loc = "relative"
                   THEN [url |-> Relative(urlStr), err |-> FALSE]
                   ELSE [url |-> Location(urlStr), err |-> FALSE]
         ELSE [url |-> urlStr \o "/", err |-> FALSE]

\* resolveOriginURL(ctx, client, urlStr) given what the host answered to the
\* HEAD request: the (string, error) pair it returns.
\*   client.go:368-371  the request cannot be built: ("", err)
\*   client.go:373-376  client.Do fails: ("", err)
\*   client.go:380-390  3xx: ErrNoLocation gives (urlStr, nil), a Location that
\*                      does not parse gives ("", err) (from client.Do for the
\*                      statuses the client would follow, from resp.Location
\*                      for the others), else (location.String(), nil)
\*   client.go:393      any other status: (urlStr, nil)
resolveOriginURL(urlStr, out) ==
    IF urlStr = BadURL \/ out.kind = "error"
    THEN [url |-> "", err |-> TRUE]
    ELSE IF out.status >= 300 /\ out.status <= 399
         THEN IF out.loc = "absent" THEN [url |-> urlStr, err |-> FALSE]
              ELSE IF out.loc = "malformed" THEN [url |-> "", err |-> TRUE]
              ELSE IF out.loc = "relative"
                   THEN [url |-> Relative(urlStr), err |-> FALSE]
                   ELSE [url |-> Location(urlStr), err |-> FALSE]
         ELSE [url |-> urlStr, err |-> FALSE]

\* ----------------------------------------------------------------- workers

Idle == [st |-> "unstarted", job |-> <<>>, res |-> <<>>]
Ready == [st |-> "ready", job |-> <<>>, res |-> <<>>]
Exited == [st |-> "exited", job |-> <<>>, res |-> <<>>]

Workers == 1..numWorkers

\* The workers run the same code and carry no identity, so the goroutines
\* are kept in one order: those holding a job first, by the index of the job,
\* then those waiting at "range jobs", then those that have returned.  Which
\* goroutine is which is not part of the program's state.
Busy(wk) == { w \in Workers : wk[w].st \in {"probing", "sending"} }

Canon(wk) ==
    LET busy == Busy(wk)
        nb == Cardinality(busy)
        nr == Cardinality({ w \in Workers : wk[w].st = "ready" })
        before(v, w) == \/ wk[v].job.index < wk[w].job.index
                        \/ wk[v].job.index = wk[w].job.index /\ v < w
        kth(k) == CHOOSE w \in busy :
                    Cardinality({ v \in busy : before(v, w) }) = k - 1
    IN  [k \in Workers |-> IF k <= nb THEN wk[kth(k)]
                           ELSE IF k <= nb + nr THEN Ready
                           ELSE Exited]

\* Of the workers waiting at "range jobs" the first one moves next.
IsNextReady(w) ==
    /\ worker[w].st = "ready"
    /\ \A v \in Workers : worker[v].st = "ready" => w <= v

\* A job built without its index, which stays at the zero value (the first
\* position).
MakeJobNoIndex(idx, g) == [index |-> 1, url |-> g[idx].URL]

\* urlResolveJob{index: i, url: grounding[i].URL}; indices count from 1 here.
MakeJob(idx, g) == [index |-> idx, url |-> g[idx].URL]

\* A worker that leaves the index of its result at the zero value (the first
\* position).
MakeResultNoIndex(job, r) == [index |-> 1, url |-> r.url, err |-> r.err]

\* urlResolveResult{index: job.index, url: origin, err: err}
MakeResult(job, r) == [index |-> job.index, url |-> r.url, err |-> r.err]

\* A worker that hands each job to a goroutine of its own and goes back to
\* "range jobs" at once.
WorkerTakeDetached(w) ==
    /\ IsNextReady(w)
    /\ jobs # <<>>
    /\ jobs' = Tail(jobs)
    /\ probed' = [probed EXCEPT ![Head(jobs).index] = @ + 1]
    /\ startedAt' = [startedAt EXCEPT ![Head(jobs).index] = now]
    /\ wired' = [wired EXCEPT ![Head(jobs).index] =
                    ~ResolveDone /\ Head(jobs).url # BadURL]
    /\ LET n == NewProbeClient(httpClient)
       IN  /\ clients' = [clients EXCEPT ![Head(jobs).index] = n.client]
           /\ httpClient' = n.custom
    /\ UNCHANGED <<wrapVars, logVars, genVars, latency, grounding, orig, ctxVars, orchVars, jobsClosed,
                   results, chanCap, answer, consumed, worker>>

\* A worker whose request is built without the context (http.NewRequest): it
\* goes out whatever the state of the scoped context.
WorkerTakeNoContext(w) ==
    /\ IsNextReady(w)
    /\ jobs # <<>>
    /\ jobs' = Tail(jobs)
    /\ worker' = Canon([worker EXCEPT ![w] =
                    [st |-> "probing", job |-> Head(jobs), res |-> <<>>]])
    /\ probed' = [probed EXCEPT ![Head(jobs).index] = @ + 1]
    /\ startedAt' = [startedAt EXCEPT ![Head(jobs).index] = now]
    /\ wired' = [wired EXCEPT ![Head(jobs).index] = Head(jobs).url # BadURL]
    /\ LET n == NewProbeClient(httpClient)
       IN  /\ clients' = [clients EXCEPT ![Head(jobs).index] = n.client]
           /\ httpClient' = n.custom
    /\ UNCHANGED <<wrapVars, logVars, genVars, latency, grounding, orig, ctxVars, orchVars, jobsClosed,
                   results, chanCap, answer, consumed>>

\* "for job := range jobs": a worker receives the next job and calls
\* resolveOriginURL(ctx, c.httpClient, job.url), whatever the state of ctx.
\* The request is built with ctx (client.go:368), so client.Do sends it to the
\* host only if it can be built and ctx is not done; otherwise the call fails
\* without a request on the wire.
WorkerTake(w) ==
    /\ IsNextReady(w)
    /\ jobs # <<>>
    /\ jobs' = Tail(jobs)
    /\ worker' = Canon([worker EXCEPT ![w] =
                    [st |-> "probing", job |-> Head(jobs), res |-> <<>>]])
    /\ probed' = [probed EXCEPT ![Head(jobs).index] = @ + 1]
    /\ startedAt' = [startedAt EXCEPT ![Head(jobs).index] = now]
    /\ wired' = [wired EXCEPT ![Head(jobs).index] =
                    ~ResolveDone /\ Head(jobs).url # BadURL]
    /\ LET n == NewProbeClient(httpClient)
       IN  /\ clients' = [clients EXCEPT ![Head(jobs).index] = n.client]
           /\ httpClient' = n.custom
    /\ UNCHANGED <<wrapVars, logVars, genVars, latency, grounding, orig, ctxVars, orchVars, jobsClosed,
                   results, chanCap, answer, consumed>>

\* A transport that does not watch the request's context: under a done
\* context the call goes on as if nothing had happened, and a request that
\* was never sent does not return.
ProbeEndIgnoresCancel(w, outs) ==
    /\ worker[w].st = "probing"
    /\ wired[worker[w].job.index]
    /\ \E out \in outs :
        /\ worker' = Canon([worker EXCEPT ![w] =
                        [st |-> "sending", job |-> worker[w].job,
                         res |-> MakeResult(worker[w].job,
                                    resolveOriginURL(worker[w].job.url,
                                        ClientDo(clients[worker[w].job.index], out)))]])
        /\ answer' = [answer EXCEPT ![worker[w].job.index] = out]
    /\ UNCHANGED <<wrapVars, clientVars, timeVars, logVars, genVars, grounding, orig, ctxVars, orchVars, jobs,
                   jobsClosed, results, chanCap, probed, consumed>>

\* A worker that stores the resolved URL into the slice itself.
ProbeEndWritesSlice(w, outs) ==
    /\ worker[w].st = "probing"
    /\ \E out \in outs :
        /\ (ResolveDone \/ ~wired[worker[w].job.index]) => out = TransportError
        /\ LET r == resolveOriginURL(worker[w].job.url,
                                     ClientDo(clients[worker[w].job.index], out))
           IN  /\ worker' = Canon([worker EXCEPT ![w] =
                               [st |-> "sending", job |-> worker[w].job,
                                res |-> MakeResult(worker[w].job, r)]])
               /\ grounding' = IF ~r.err /\ r.url # ""
                               THEN [grounding EXCEPT ![worker[w].job.index].URL = r.url]
                               ELSE grounding
        /\ answer' = [answer EXCEPT ![worker[w].job.index] = out]
    /\ UNCHANGED <<wrapVars, clientVars, timeVars, logVars, genVars, orig, ctxVars, orchVars, jobs,
                   jobsClosed, results, chanCap, probed, consumed>>

\* resolveOriginURL returns, the hosts answering with one of outs.  A request
\* that cannot be built or whose context is done fails; otherwise the host
\* answers or the transport fails (connection error, 3 s timeout).
ProbeEnd(w, outs) ==
    /\ worker[w].st = "probing"
    /\ \E out \in outs :
        /\ (ResolveDone \/ ~wired[worker[w].job.index]) => out = TransportError
        /\ worker' = Canon([worker EXCEPT ![w] =
                        [st |-> "sending", job |-> worker[w].job,
                         res |-> MakeResult(worker[w].job,
                                    resolveOriginURL(worker[w].job.url,
                                        ClientDo(clients[worker[w].job.index], out)))]])
        /\ answer' = [answer EXCEPT ![worker[w].job.index] = out]
    /\ UNCHANGED <<wrapVars, clientVars, timeVars, logVars, genVars, grounding, orig, ctxVars, orchVars, jobs, jobsClosed, results,
                   chanCap, probed, consumed>>

\* client.go:459 within a batch.
WorkerProbeEnd(w) == ProbeEnd(w, ProbeOutcomes)

\* client.go:459 for a call examined on its own.
WorkerProbeAny(w) == ProbeEnd(w, AllOutcomes)

\* A send on a results channel without a buffer: it needs the orchestrator
\* at its receive.
WorkerSendRendezvous(w) ==
    /\ worker[w].st = "sending"
    /\ pc = "collect"
    /\ Len(results) < chanCap
    /\ results' = Append(results, worker[w].res)
    /\ worker' = Canon([worker EXCEPT ![w] = Ready])
    /\ UNCHANGED <<wrapVars, clientVars, timeVars, logVars, genVars, grounding, orig, ctxVars, orchVars,
                   jobs, jobsClosed, chanCap, ghostVars>>

\* A worker that delivers its result twice.
WorkerSendTwice(w) ==
    /\ worker[w].st = "sending"
    /\ Len(results) + 1 < chanCap
    /\ results' = Append(Append(results, worker[w].res), worker[w].res)
    /\ worker' = Canon([worker EXCEPT ![w] = Ready])
    /\ UNCHANGED <<wrapVars, clientVars, timeVars, logVars, genVars, grounding, orig, ctxVars, orchVars, jobs, jobsClosed, chanCap,
                   ghostVars>>

\* A worker that logs a failed resolution itself and sends no result for it.
WorkerSendSkipError(w) ==
    /\ worker[w].st = "sending"
    /\ Len(results) < chanCap
    /\ results' = IF worker[w].res.err THEN results ELSE Append(results, worker[w].res)
    /\ worker' = Canon([worker EXCEPT ![w] = Ready])
    /\ UNCHANGED <<wrapVars, clientVars, timeVars, logVars, genVars, grounding, orig, ctxVars, orchVars, jobs,
                   jobsClosed, chanCap, ghostVars>>

\* "results <- urlResolveResult{...}": blocks while the buffer is full.
WorkerSend(w) ==
    /\ worker[w].st = "sending"
    /\ Len(results) < chanCap
    /\ results' = Append(results, worker[w].res)
    /\ worker' = Canon([worker EXCEPT ![w] = Ready])
    /\ UNCHANGED <<wrapVars, clientVars, timeVars, logVars, genVars, grounding, orig, ctxVars, orchVars, jobs, jobsClosed, chanCap,
                   ghostVars>>

\* "range jobs" ends: the channel is closed and empty.
WorkerExit(w) ==
    /\ IsNextReady(w)
    /\ jobs = <<>>
    /\ jobsClosed
    /\ worker' = Canon([worker EXCEPT ![w] = Exited])
    /\ UNCHANGED <<wrapVars, clientVars, timeVars, logVars, genVars, grounding, orig, ctxVars, orchVars, jobs, jobsClosed, results,
                   chanCap, ghostVars>>

urlResolveWorker(w) ==
    \/ WorkerTake(w)
    \/ WorkerProbeEnd(w)
    \/ WorkerSend(w)
    \/ WorkerExit(w)

\* The worker loop with the hosts free to answer anything.
urlResolveWorkerAny(w) ==
    \/ WorkerTake(w)
    \/ WorkerProbeAny(w)
    \/ WorkerSend(w)
    \/ WorkerExit(w)

\* ------------------------------------------------------------ orchestrator

\* The deferred cancel(): it cancels a WithTimeout child and is a no-op for
\* a reused parent context.
RunCancel ==
    /\ cancelCalls' = cancelCalls + 1
    /\ cancelled' = (cancelled \/ ownTimer)

\* An entry without the check for the empty sequence.
EnterNoEmptyCheck ==
    /\ pc = "entry"
    /\ LET c == createResolveContext(parentDeadline, now)
       IN  /\ resolveDeadline' = c.deadline
           /\ ownTimer' = c.own
           /\ pc' = "start"
    /\ UNCHANGED <<wrapVars, clientVars, timeVars, logVars, genVars, grounding, orig, now, parentDeadline,
                   parentCancelled, cancelled, cancelCalls, i, jobCount, collected,
                   timedOut, jobs, jobsClosed, results, chanCap, worker, ghostVars>>

\* client.go:411-417: the empty sequence returns at once; otherwise the scoped
\* context is created.
Enter ==
    /\ pc = "entry"
    /\ IF Len(grounding) = 0
       THEN /\ pc' = "returned"
            /\ UNCHANGED <<resolveDeadline, ownTimer>>
       ELSE LET c == createResolveContext(parentDeadline, now)
            IN  /\ resolveDeadline' = c.deadline
                /\ ownTimer' = c.own
                /\ pc' = "start"
    /\ UNCHANGED <<wrapVars, clientVars, timeVars, logVars, genVars, grounding, orig, now, parentDeadline, parentCancelled, cancelled,
                   cancelCalls, i, jobCount, collected, timedOut, jobs, jobsClosed,
                   results, chanCap, worker, ghostVars>>

\* Channels that hold one element each, whatever the length of the slice.
StartWorkersSmallChannels ==
    /\ pc = "start"
    /\ chanCap' = 1
    /\ jobs' = <<>>
    /\ results' = <<>>
    /\ worker' = [w \in Workers |-> Ready]
    /\ i' = 1
    /\ jobCount' = 0
    /\ pc' = "send"
    /\ UNCHANGED <<wrapVars, clientVars, timeVars, logVars, genVars, grounding, orig, ctxVars, collected,
                   timedOut, jobsClosed, ghostVars>>

\* A pool of one goroutine: the URLs are resolved one after the other.
StartWorkersSingle ==
    /\ pc = "start"
    /\ chanCap' = Len(grounding)
    /\ jobs' = <<>>
    /\ results' = <<>>
    /\ worker' = [w \in Workers |-> IF w = 1 THEN Ready ELSE Exited]
    /\ i' = 1
    /\ jobCount' = 0
    /\ pc' = "send"
    /\ UNCHANGED <<wrapVars, clientVars, timeVars, logVars, genVars, grounding, orig, ctxVars, collected,
                   timedOut, jobsClosed, ghostVars>>

\* client.go:420-427: the channels are made and the workers started.
StartWorkers ==
    /\ pc = "start"
    /\ chanCap' = Len(grounding)
    /\ jobs' = <<>>
    /\ results' = <<>>
    /\ worker' = [w \in Workers |-> Ready]
    /\ i' = 1
    /\ jobCount' = 0
    /\ pc' = "send"
    /\ UNCHANGED <<wrapVars, clientVars, timeVars, logVars, genVars, grounding, orig, ctxVars, collected, timedOut, jobsClosed,
                   ghostVars>>

\* A send loop that does not skip the empty URLs.
SendJobUnfiltered ==
    /\ pc = "send"
    /\ i <= Len(grounding)
    /\ Len(jobs) < chanCap
    /\ jobs' = Append(jobs, [index |-> i, url |-> grounding[i].URL])
    /\ jobCount' = jobCount + 1
    /\ i' = i + 1
    /\ UNCHANGED <<wrapVars, clientVars, timeVars, logVars, genVars, grounding, orig, ctxVars, pc, collected, timedOut, jobsClosed,
                   results, chanCap, worker, ghostVars>>

\* A send loop with close(jobs) inside its body: the queue is closed after
\* each job sent.
SendJobThenClose ==
    /\ pc = "send"
    /\ i <= Len(grounding)
    /\ IF grounding[i].URL # ""
       THEN /\ Len(jobs) < chanCap
            /\ jobs' = Append(jobs, MakeJob(i, grounding))
            /\ jobCount' = jobCount + 1
            /\ jobsClosed' = TRUE
       ELSE UNCHANGED <<jobs, jobCount, jobsClosed>>
    /\ i' = i + 1
    /\ UNCHANGED <<wrapVars, clientVars, timeVars, logVars, genVars, grounding, orig, ctxVars, pc, collected,
                   timedOut, results, chanCap, worker, ghostVars>>

\* A send loop that counts every attribution, also those it skips.
SendJobCountsAll ==
    /\ pc = "send"
    /\ i <= Len(grounding)
    /\ IF grounding[i].URL # ""
       THEN /\ Len(jobs) < chanCap
            /\ jobs' = Append(jobs, MakeJob(i, grounding))
       ELSE UNCHANGED jobs
    /\ jobCount' = jobCount + 1
    /\ i' = i + 1
    /\ UNCHANGED <<wrapVars, clientVars, timeVars, logVars, genVars, grounding, orig, ctxVars, pc, collected,
                   timedOut, jobsClosed, results, chanCap, worker, ghostVars>>

\* client.go:431-436: one iteration of the send loop.
SendJob ==
    /\ pc = "send"
    /\ i <= Len(grounding)
    /\ IF grounding[i].URL # ""
       THEN /\ Len(jobs) < chanCap
            /\ jobs' = Append(jobs, MakeJob(i, grounding))
            /\ jobCount' = jobCount + 1
       ELSE UNCHANGED <<jobs, jobCount>>
    /\ i' = i + 1
    /\ UNCHANGED <<wrapVars, clientVars, timeVars, logVars, genVars, grounding, orig, ctxVars, pc, collected, timedOut, jobsClosed,
                   results, chanCap, worker, ghostVars>>

\* A send loop that is not followed by close(jobs).
CloseJobsForgotten ==
    /\ pc = "send"
    /\ i > Len(grounding)
    /\ pc' = "collect"
    /\ collected' = 0
    /\ UNCHANGED <<wrapVars, clientVars, timeVars, logVars, genVars, grounding, orig, ctxVars, i, jobCount,
                   timedOut, jobs, jobsClosed, results, chanCap, worker, ghostVars>>

\* client.go:437: close(jobs)
CloseJobs ==
    /\ pc = "send"
    /\ i > Len(grounding)
    /\ jobsClosed' = TRUE
    /\ pc' = "collect"
    /\ collected' = 0
    /\ UNCHANGED <<wrapVars, clientVars, timeVars, logVars, genVars, grounding, orig, ctxVars, i, jobCount, timedOut, jobs, results,
                   chanCap, worker, ghostVars>>

\* client.go:447: the line logged for an error result; the position is printed
\* counting from 1, as the indices here do.
FailedLine(result) ==
    [msg |-> "failed to resolve origin URL", index |-> result.index, err |-> result.err]

\* client.go:450: the line logged when the scoped context is done.
TimedOutLine == [msg |-> "URL resolution timed out", index |-> 0, err |-> FALSE]

\* A collect loop that logs a line for every result it receives.
LogResultEvery(log, result) == Append(log, FailedLine(result))

\* client.go:445-447: what a received result does to the log.
LogResult(log, result) ==
    IF ~result.err /\ result.url # "" THEN log
    ELSE IF result.err THEN Append(log, FailedLine(result))
    ELSE log

\* A write-back that does not look at the error or at the empty URL.
WriteBackUnchecked(g, result) ==
    [g EXCEPT ![result.index].URL = result.url]

\* A write-back that stores a fresh attribution holding only the URL.
WriteBackFreshElement(g, result) ==
    IF ~result.err /\ result.url # ""
    THEN [g EXCEPT ![result.index] =
            [Title |-> "", Domain |-> "", URL |-> result.url, Segments |-> <<>>]]
    ELSE g

\* client.go:443-448: what a received result does to the slice.
WriteBack(g, result) ==
    IF ~result.err /\ result.url # ""
    THEN [g EXCEPT ![result.index].URL = result.url]
    ELSE g

\* A collect loop that gives up at the first error result.
CollectAbortOnError ==
    /\ pc = "collect"
    /\ collected < jobCount
    /\ results # <<>>
    /\ grounding' = WriteBack(grounding, Head(results))
    /\ results' = Tail(results)
    /\ consumed' = [consumed EXCEPT ![Head(results).index] = @ + 1]
    /\ collected' = collected + 1
    /\ warnings' = LogResult(warnings, Head(results))
    /\ pc' = IF Head(results).err THEN "returned" ELSE pc
    /\ UNCHANGED <<wrapVars, clientVars, timeVars, genVars, orig, ctxVars, i, jobCount, timedOut, jobs, jobsClosed,
                   chanCap, worker, probed, answer>>

\* client.go:442: the select takes "case result := <-results".
Collect ==
    /\ pc = "collect"
    /\ collected < jobCount
    /\ results # <<>>
    /\ grounding' = WriteBack(grounding, Head(results))
    /\ results' = Tail(results)
    /\ consumed' = [consumed EXCEPT ![Head(results).index] = @ + 1]
    /\ collected' = collected + 1
    /\ warnings' = LogResult(warnings, Head(results))
    /\ UNCHANGED <<wrapVars, clientVars, timeVars, genVars, orig, ctxVars, pc, i, jobCount, timedOut, jobs, jobsClosed,
                   chanCap, worker, probed, answer>>

\* A select without the Done case: only results end the wait.
DeadlineCaseMissing ==
    /\ pc = "collect"
    /\ FALSE
    /\ UNCHANGED vars

\* A Done case that ends with "break": it leaves the select, not the loop.
DeadlineBreak ==
    /\ pc = "collect"
    /\ collected < jobCount
    /\ ResolveDone
    /\ ~timedOut
    /\ timedOut' = TRUE
    /\ warnings' = Append(warnings, TimedOutLine)
    /\ UNCHANGED <<wrapVars, clientVars, timeVars, genVars, grounding, orig, ctxVars, pc, i, jobCount, collected, jobs,
                   jobsClosed, results, chanCap, worker, ghostVars>>

\* A Done case that returns without the cancel having been deferred.
DeadlineReturnNoCancel ==
    /\ pc = "collect"
    /\ collected < jobCount
    /\ ResolveDone
    /\ timedOut' = TRUE
    /\ warnings' = Append(warnings, TimedOutLine)
    /\ pc' = "returned"
    /\ UNCHANGED <<wrapVars, clientVars, timeVars, genVars, grounding, orig, ctxVars, i, jobCount, collected, jobs,
                   jobsClosed, results, chanCap, worker, ghostVars>>

\* client.go:449-451: the select takes "case <-resolveCtx.Done()": return,
\* running the deferred cancel.
DeadlineReturn ==
    /\ pc = "collect"
    /\ collected < jobCount
    /\ ResolveDone
    /\ timedOut' = TRUE
    /\ warnings' = Append(warnings, TimedOutLine)
    /\ pc' = "returned"
    /\ RunCancel
    /\ UNCHANGED <<wrapVars, clientVars, timeVars, genVars, grounding, orig, now, parentDeadline, parentCancelled,
                   resolveDeadline, ownTimer, i, jobCount, collected, jobs,
                   jobsClosed, results, chanCap, worker, ghostVars>>

\* client.go:440/454: the loop has run jobCount times: return, running the
\* deferred cancel.
Finish ==
    /\ pc = "collect"
    /\ collected = jobCount
    /\ pc' = "returned"
    /\ RunCancel
    /\ UNCHANGED <<wrapVars, clientVars, timeVars, logVars, genVars, grounding, orig, now, parentDeadline, parentCancelled,
                   resolveDeadline, ownTimer, i, jobCount, collected, timedOut, jobs,
                   jobsClosed, results, chanCap, worker, ghostVars>>

resolveGroundingURLs ==
    \/ Enter
    \/ StartWorkers
    \/ SendJob
    \/ CloseJobs
    \/ Collect
    \/ DeadlineReturn
    \/ Finish

\* ------------------------------------------------------------ environment

\* Time passes until the scoped deadline.  Nothing the batch does reads the
\* clock between two deadlines, so the clock moves from one to the next; once
\* resolveCtx is done it stays done and the clock is read no more.
Tick ==
    /\ resolveDeadline.ok
    /\ ~ResolveDone
    /\ now < resolveDeadline.at
    /\ now' = resolveDeadline.at
    /\ UNCHANGED <<wrapVars, clientVars, timeVars, logVars, genVars, grounding, orig, parentDeadline, parentCancelled, resolveDeadline,
                   ownTimer, cancelled, cancelCalls, orchVars, jobs, jobsClosed,
                   results, chanCap, worker, ghostVars>>

\* The caller cancels the context it passed in.
CallerCancel ==
    /\ pc \notin {"entry", "returned"}
    /\ ~ResolveDone
    /\ parentCancelled' = TRUE
    /\ UNCHANGED <<wrapVars, clientVars, timeVars, logVars, genVars, grounding, orig, now, parentDeadline, resolveDeadline, ownTimer,
                   cancelled, cancelCalls, orchVars, jobs, jobsClosed, results,
                   chanCap, worker, ghostVars>>

\* ------------------------------------------------------------ timed hosts

\* A probe client without a Timeout: the call lasts as long as the host takes.
ProbeTimeUnbounded(k) == latency[k]

\* How long a call of resolveOriginURL for index k lasts once its request is
\* out: the host's latency, cut by the client's Timeout (client.go:353/364).
ProbeTime(k) ==
    IF latency[k] > ProbeTimeout THEN ProbeTimeout ELSE latency[k]

\* What the timed hosts answer: a redirects, any other host answers 200.
HostAnswer(u) ==
    IF u = "http://a" THEN Response(302, "target") ELSE Response(200, "absent")

\* resolveOriginURL returns when the host has answered or the client's timeout
\* has passed (a transport error), and at once when the request was never
\* sent or the scoped context is done.
TimedProbeEnd(w) ==
    /\ worker[w].st = "probing"
    /\ LET k == worker[w].job.index
       IN  \/ ResolveDone
           \/ ~wired[k]
           \/ now = startedAt[k] + ProbeTime(k)
    /\ ProbeEnd(w, IF \/ latency[worker[w].job.index] > ProbeTimeout
                      \/ ResolveDone
                      \/ ~wired[worker[w].job.index]
                   THEN {TransportError}
                   ELSE {HostAnswer(worker[w].job.url)})

\* The worker loop against hosts with latencies.
urlResolveWorkerTimed(w) ==
    \/ WorkerTake(w)
    \/ TimedProbeEnd(w)
    \/ WorkerSend(w)
    \/ WorkerExit(w)

\* A second passes.  The goroutines' own steps take no time: time passes only
\* when the orchestrator waits in the select, no worker can move and every
\* request out is still unanswered.
Advance ==
    /\ pc = "collect"
    /\ collected < jobCount
    /\ results = <<>>
    /\ ~ResolveDone
    /\ \A w \in Workers : worker[w].st # "sending"
    /\ jobs = <<>> \/ \A w \in Workers : worker[w].st # "ready"
    /\ \E w \in Workers : worker[w].st = "probing"
    /\ \A w \in Workers : worker[w].st = "probing" =>
          /\ wired[worker[w].job.index]
          /\ now < startedAt[worker[w].job.index] + ProbeTime(worker[w].job.index)
    /\ now' = now + 1
    /\ UNCHANGED <<wrapVars, clientVars, timeVars, logVars, genVars, grounding, orig, parentDeadline,
                   parentCancelled, resolveDeadline, ownTimer, cancelled, cancelCalls,
                   orchVars, jobs, jobsClosed, results, chanCap, worker, ghostVars>>

\* ---------------------------------------------------- processGenaiResponse

\* What genai.GenerateContent handed to processGenaiResponse, with the
\* client's NoRedirection option:
\*   callErr       "nil", a gRPC status with safety details of code
\*                 InvalidArgument ("statusSafety"), another gRPC status
\*                 ("status"), or an error that is no status ("plain")
\*   respNil       genaiResp == nil
\*   blocked       PromptFeedback carries a BlockReason
\*   candidates    len(genaiResp.Candidates)
\*   finishSafety  Candidates[0].FinishReason == FinishReasonSafety
\*   parts         len(candidate.Content.Parts), 0 also for a nil Content
\*   text          the texts of the parts, concatenated
Calls ==
    [callErr : {"nil", "statusSafety", "status", "plain"},
     respNil : BOOLEAN, blocked : BOOLEAN, candidates : {0, 1},
     finishSafety : BOOLEAN, parts : {0, 1}, text : {"", "x"},
     noRedirection : BOOLEAN]

\* A call that reached resolveGroundingURLs.
ResolvingCall ==
    [callErr |-> "nil", respNil |-> FALSE, blocked |-> FALSE, candidates |-> 1,
     finishSafety |-> FALSE, parts |-> 1, text |-> "x", noRedirection |-> TRUE]

\* The (*Response, error) pair of processGenaiResponse.
Pending == [kind |-> "pending", err |-> "", text |-> "", attributions |-> <<>>]
Failure(e) == [kind |-> "error", err |-> e, text |-> "", attributions |-> <<>>]
Success(t, g) == [kind |-> "response", err |-> "", text |-> t, attributions |-> g]

\* client.go:135-175: the error processGenaiResponse returns before it reads
\* the candidate's content, or "nil".
EarlyError(c) ==
    IF c.callErr = "statusSafety" THEN "APIError InvalidArgument: ErrContentBlocked"
    ELSE IF c.callErr = "status" THEN "APIError status code: callErr"
    ELSE IF c.callErr = "plain" THEN "APIError Unknown: callErr"
    ELSE IF c.respNil THEN "APIError Internal: ErrNoContentGenerated"
    ELSE IF c.blocked THEN "APIError InvalidArgument: ErrContentBlocked"
    ELSE IF c.candidates = 0 THEN "ErrNoContentGenerated"
    ELSE IF c.finishSafety THEN "APIError FailedPrecondition: ErrContentBlocked"
    ELSE IF c.parts = 0 THEN "ErrNoContentGenerated"
    ELSE "nil"

\* A processGenaiResponse that resolves the URLs whatever NoRedirection is.
ProcessAlwaysResolve ==
    /\ pc = "process"
    /\ IF EarlyError(call) # "nil"
       THEN /\ ret' = Failure(EarlyError(call))
            /\ pc' = "done"
            /\ UNCHANGED invoked
       ELSE /\ invoked' = invoked + 1
            /\ pc' = "entry"
            /\ UNCHANGED ret
    /\ UNCHANGED <<call, clientVars, timeVars, logVars, genVars, grounding, orig, ctxVars, i, jobCount, collected,
                   timedOut, jobs, jobsClosed, results, chanCap, worker, ghostVars>>

\* client.go:135-192: processGenaiResponse up to the call of
\* resolveGroundingURLs.  extractGroundingMetadata has no failing path.
Process ==
    /\ pc = "process"
    /\ IF EarlyError(call) # "nil"
       THEN /\ ret' = Failure(EarlyError(call))
            /\ pc' = "done"
            /\ UNCHANGED invoked
       ELSE IF call.noRedirection
            THEN /\ invoked' = invoked + 1
                 /\ pc' = "entry"
                 /\ UNCHANGED ret
            ELSE /\ pc' = "respond"
                 /\ UNCHANGED <<ret, invoked>>
    /\ UNCHANGED <<call, clientVars, timeVars, logVars, genVars, grounding, orig, ctxVars, i, jobCount, collected,
                   timedOut, jobs, jobsClosed, results, chanCap, worker, ghostVars>>

\* A processGenaiResponse that fails when the batch ran into its deadline.
BuildResponseFailOnTimeout ==
    /\ pc \in {"respond", "returned"}
    /\ ret' = IF call.text = "" /\ Len(grounding) = 0
              THEN Failure("ErrNoContentGenerated")
              ELSE IF timedOut THEN Failure("context deadline exceeded")
              ELSE Success(call.text, grounding)
    /\ pc' = "done"
    /\ UNCHANGED <<call, invoked, clientVars, timeVars, logVars, genVars, grounding, orig, ctxVars, i, jobCount,
                   collected, timedOut, jobs, jobsClosed, results, chanCap, worker,
                   ghostVars>>

\* client.go:195-208: resolveGroundingURLs has returned, or was not called;
\* the Response is built and the empty one refused.
BuildResponse ==
    /\ pc \in {"respond", "returned"}
    /\ ret' = IF call.text = "" /\ Len(grounding) = 0
              THEN Failure("ErrNoContentGenerated")
              ELSE Success(call.text, grounding)
    /\ pc' = "done"
    /\ UNCHANGED <<call, invoked, clientVars, timeVars, logVars, genVars, grounding, orig, ctxVars, i, jobCount,
                   collected, timedOut, jobs, jobsClosed, results, chanCap, worker,
                   ghostVars>>

processGenaiResponse ==
    \/ Process
    \/ BuildResponse

\* --------------------------------------- GenerateGroundedContentWithParams

\* constants.go: DefaultRequestTimeout, the RequestTimeout of a client built
\* without WithRequestTimeout.
DefaultRequestTimeout == 60

\* A request context made from context.Background(): the caller's deadline
\* is lost, the configured timeout is all there is.
RequestContextDetached(cd, rt, t) ==
    IF rt > 0 THEN Deadline(t + rt) ELSE cd

\* client.go:329-335: the deadline of the context used from here on, made at
\* time t from the caller's deadline cd and RequestTimeout rt.
RequestContext(cd, rt, t) ==
    IF rt > 0
    THEN IF ~cd.ok THEN WithTimeout(cd, t, rt) ELSE cd
    ELSE cd

\* client.go:329-336: ctx is the caller's context or a child with the
\* configured timeout.
ApplyRequestTimeout ==
    /\ pc = "generate"
    /\ parentDeadline' = RequestContext(callerDeadline, requestTimeout, now)
    /\ pc' = "generating"
    /\ UNCHANGED <<wrapVars, clientVars, timeVars, logVars, genVars, grounding, orig, now,
                   parentCancelled, resolveDeadline, ownTimer, cancelled, cancelCalls,
                   i, jobCount, collected, timedOut, jobs, jobsClosed, results,
                   chanCap, worker, ghostVars>>

\* How long the generation call may take, in seconds.
GenerationTimes == {0, 5, 45}

\* client.go:338: c.genaiClient.Models.GenerateContent(ctx, ...) answers after
\* d seconds with what the API gives, or fails when ctx is done first.
GenerateContent ==
    /\ pc = "generating"
    /\ \E d \in GenerationTimes :
          IF parentDeadline.ok /\ now + d >= parentDeadline.at
          THEN /\ now' = IF now >= parentDeadline.at THEN now ELSE parentDeadline.at
               /\ call' = [call EXCEPT !.callErr = "plain"]
          ELSE /\ now' = now + d
               /\ call' = call
    /\ pc' = "process"
    /\ UNCHANGED <<ret, invoked, clientVars, timeVars, logVars, genVars, grounding, orig,
                   parentDeadline, parentCancelled, resolveDeadline, ownTimer,
                   cancelled, cancelCalls, i, jobCount, collected, timedOut, jobs,
                   jobsClosed, results, chanCap, worker, ghostVars>>

GenerateGroundedContentWithParams ==
    \/ ApplyRequestTimeout
    \/ GenerateContent
    \/ processGenaiResponse

\* ---------------------------------------------------------- specification

\* The batch's part of the state before resolveGroundingURLs(ctx, grounding)
\* runs, at time t.
BatchInit(gs, pds, ts) ==
    /\ grounding \in gs
    /\ orig = grounding
    /\ now \in ts
    /\ parentDeadline \in pds
    /\ parentCancelled = FALSE
    /\ resolveDeadline = NoDeadline
    /\ ownTimer = FALSE
    /\ cancelled = FALSE
    /\ cancelCalls = 0
    /\ i = 0
    /\ jobCount = 0
    /\ collected = 0
    /\ timedOut = FALSE
    /\ jobs = <<>>
    /\ jobsClosed = FALSE
    /\ results = <<>>
    /\ chanCap = 0
    /\ worker = [w \in Workers |-> Idle]
    /\ probed = [k \in 1..Len(grounding) |-> 0]
    /\ answer = [k \in 1..Len(grounding) |-> NoAnswer]
    /\ consumed = [k \in 1..Len(grounding) |-> 0]
    /\ clients = [k \in 1..Len(grounding) |-> NoClient]
    /\ startedAt = [k \in 1..Len(grounding) |-> 0 - 1]
    /\ wired = [k \in 1..Len(grounding) |-> FALSE]
    /\ warnings = <<>>
    /\ callerDeadline = parentDeadline

\* The state at the call of resolveGroundingURLs(ctx, grounding) at time t, by
\* a client built with WithHTTPClient.
InitWith(gs, pds, ts) ==
    /\ BatchInit(gs, pds, ts)
    /\ pc = "entry"
    /\ call = ResolvingCall
    /\ ret = Pending
    /\ invoked = 1
    /\ httpClient = CustomClient
    /\ latency = [k \in 1..Len(grounding) |-> 1]
    /\ requestTimeout = 0

Init == InitWith(Groundings, ParentDeadlines, {0})

Next ==
    \/ resolveGroundingURLs
    \/ \E w \in Workers : urlResolveWorker(w)
    \/ Tick
    \/ CallerCancel

Spec == Init /\ [][Next]_vars

\* createResolveContext alone, over every parent deadline from 2 seconds
\* before the clock's start to MaxParentDeadline and every time of the call
\* up to MaxNow: the call of resolveGroundingURLs up to the allocation of the
\* scoped context.
CtxDeadlines ==
    {NoDeadline} \cup { Deadline(t) : t \in (0 - 2)..MaxParentDeadline }

CtxInit ==
    InitWith({ <<Attribution(1, "http://a")>> }, CtxDeadlines, 0..MaxNow)

CtxSpec == CtxInit /\ [][Enter]_vars

\* The orchestrator goroutine runs whenever it can, and time passes.  Nothing
\* is assumed of the workers: a probe may hang for as long as it likes.
FairSpec ==
    /\ Init
    /\ [][Next]_vars
    /\ WF_vars(resolveGroundingURLs)
    /\ WF_vars(Tick)

\* The worker goroutines run whenever they can as well: a call of
\* resolveOriginURL returns (its client has a timeout and its request the
\* scoped context), and a goroutine that can send, receive or return does so.
\* It is run on one batch of two URLs and one of a URL and an empty URL, under
\* a parent without a deadline and under one whose deadline is 5 seconds away.
WorkersInit ==
    InitWith({ [k \in 1..2 |-> Attribution(k, us[k])] :
                 us \in {<<"http://a", "http://b">>, <<"", "http://a">>} },
             {NoDeadline, Deadline(5)}, {0})

FairWorkersSpec ==
    /\ WorkersInit
    /\ [][Next]_vars
    /\ WF_vars(resolveGroundingURLs)
    /\ WF_vars(Tick)
    /\ WF_vars(\E w \in Workers : urlResolveWorker(w))

\* One batch against hosts with unequal latencies: 2 URLs, as many URLs as
\* workers, and PoolJobs URLs; latencies of 1, 2 and 3 seconds in turn, in
\* either order, or with a first host that never answers.  The batch of 2 is
\* also run under a parent deadline 2 seconds away.
PoolGrounding(K) ==
    [k \in 1..K |-> Attribution(k, IF k % 2 = 1 THEN "http://a" ELSE "http://b")]

LatencyPlans(K) ==
    { [k \in 1..K |-> ((k - 1) % 3) + 1],
      [k \in 1..K |-> 3 - ((k - 1) % 3)],
      [k \in 1..K |-> IF k = 1 THEN 5 ELSE ((k - 1) % 3) + 1] }

PoolInit ==
    \E K \in {2, numWorkers, PoolJobs} :
        /\ BatchInit({PoolGrounding(K)},
                     IF K = 2 THEN {NoDeadline, Deadline(2)} ELSE {NoDeadline}, {0})
        /\ latency \in LatencyPlans(K)
        /\ pc = "entry"
        /\ call = ResolvingCall
        /\ ret = Pending
        /\ invoked = 1
        /\ httpClient = CustomClient
        /\ requestTimeout = 0

PoolNext ==
    \/ resolveGroundingURLs
    \/ \E w \in Workers : urlResolveWorkerTimed(w)
    \/ Advance

PoolSpec == PoolInit /\ [][PoolNext]_vars

\* processGenaiResponse from its call: every outcome of the generation call,
\* with and without NoRedirection and a custom client, over no attribution,
\* one with an empty URL, one with a URL and two with URLs.
PgrGroundings ==
    { [k \in 1..Len(us) |-> Attribution(k, us[k])] :
        us \in {<<>>, <<"">>, <<"http://a">>, <<"http://a", "http://b">>} }

PgrInit ==
    /\ BatchInit(PgrGroundings, {NoDeadline, Deadline(0), Deadline(5)}, {0})
    /\ pc = "process"
    /\ call \in Calls
    /\ ret = Pending
    /\ invoked = 0
    /\ httpClient \in {NilClient, CustomClient}
    /\ latency = [k \in 1..Len(grounding) |-> 1]
    /\ requestTimeout = 0

PgrNext ==
    \/ processGenaiResponse
    \/ Next

PgrSpec == PgrInit /\ [][PgrNext]_vars

\* GenerateGroundedContentWithParams from its call at time 0: a caller without
\* a deadline or with one 10 or 60 seconds away, a client without
\* RequestTimeout, with one of 10 seconds or with the default, an API answer
\* with one attribution, with and without NoRedirection.
CallerDeadlines == {NoDeadline, Deadline(10), Deadline(60)}
RequestTimeouts == {0, 10, DefaultRequestTimeout}

GenInit ==
    /\ BatchInit({ <<Attribution(1, "http://a")>> }, CallerDeadlines, {0})
    /\ pc = "generate"
    /\ call \in { [ResolvingCall EXCEPT !.noRedirection = b] : b \in BOOLEAN }
    /\ ret = Pending
    /\ invoked = 0
    /\ httpClient = NilClient
    /\ latency = [k \in 1..Len(grounding) |-> 1]
    /\ requestTimeout \in RequestTimeouts

GenNext ==
    \/ GenerateGroundedContentWithParams
    \/ Next

GenSpec == GenInit /\ [][GenNext]_vars

\* resolveOriginURL examined call by call: one attribution, whose URL parses or
\* does not, and hosts that answer with any of AllOutcomes.
ResolveInit ==
    InitWith({ <<Attribution(1, u)>> : u \in {"http://a", "http://b", BadURL} },
             ParentDeadlines, {0})

ResolveNext ==
    \/ resolveGroundingURLs
    \/ \E w \in Workers : urlResolveWorkerAny(w)
    \/ Tick
    \/ CallerCancel

ResolveSpec == ResolveInit /\ [][ResolveNext]_vars

\* ------------------------------------------------------------ properties

Indices == DOMAIN orig
Returned == pc = "returned"
\* The call ran a batch (the sequence was not empty).
RanBatch == Len(orig) > 0
URLsUnchanged == \A k \in Indices : grounding[k].URL = orig[k].URL
\* The batch deadline has passed or the caller cancelled: resolveCtx is done
\* for another reason than the orchestrator's own deferred cancel.
BatchExpired ==
    /\ resolveDeadline.ok
    /\ (ParentDone \/ now >= resolveDeadline.at)

\* C1: whenever the URL at position k differs from the one the batch started
\* with, it is the URL that resolving the probe of the original URL at k gave,
\* whatever the order in which the results arrived.
C1_WriteBackByIndex ==
    \A k \in Indices :
        grounding[k].URL # orig[k].URL =>
            /\ answer[k].kind = "response"
            /\ ~resolveOriginURL(orig[k].URL, answer[k]).err
            /\ grounding[k].URL = resolveOriginURL(orig[k].URL, answer[k]).url

\* The result of the second job was written while the result of the first,
\* a different redirect, still waits in the queue.
C1_Witness ==
    /\ Len(orig) = 2
    /\ orig[1].URL = "http://a" /\ orig[2].URL = "http://b"
    /\ grounding[2].URL = "http://b2"
    /\ grounding[1].URL = "http://a"
    /\ results # <<>>
    /\ Head(results) = [index |-> 1, url |-> "http://a2", err |-> FALSE]

\* C2: the call always returns, whatever the probes do: it has returned only
\* after draining jobCount results or with the scoped context done, a done
\* context leads to the return, and the return comes in every behaviour.
C2_AlwaysReturns ==
    /\ [](Returned /\ RanBatch => (collected = jobCount \/ (timedOut /\ ResolveDone)))
    /\ ((ResolveDone /\ pc = "collect") ~> Returned)
    /\ <>Returned

\* The call returned on the deadline while a probe was still in flight.
C2_Witness ==
    /\ Returned
    /\ timedOut
    /\ \E w \in Workers : worker[w].st = "probing"

\* C3: when the scoped context is done before any probe has answered, and in
\* particular when the parent's deadline had passed at the call, the call
\* returns with every URL as it was.
C3_ExpiredBatchChangesNothing ==
    /\ (Returned /\ BatchExpired /\ (\A k \in Indices : answer[k].kind # "response"))
          => URLsUnchanged
    /\ (Returned /\ parentDeadline.ok /\ parentDeadline.at <= 0) => URLsUnchanged

\* The parent's deadline had passed, a probe failed, its result was drained
\* and the call returned.
C3_Witness ==
    /\ Returned
    /\ parentDeadline.ok /\ parentDeadline.at <= 0
    /\ \E k \in Indices : answer[k] = TransportError /\ consumed[k] = 1

\* C4: never more results collected than jobs submitted, no result consumed
\* twice, and without the deadline firing each job's result consumed once.
C4_ResultsCollectedOnce ==
    /\ collected <= jobCount
    /\ \A k \in Indices : consumed[k] <= 1
    /\ \A k \in Indices : consumed[k] <= probed[k]
    /\ (Returned /\ ~timedOut) =>
          \A k \in Indices : consumed[k] = IF orig[k].URL # "" THEN 1 ELSE 0

\* Two jobs, both results consumed, no deadline.
C4_Witness ==
    /\ Returned
    /\ ~timedOut
    /\ jobCount = 2
    /\ collected = 2

\* A step that drains an error result leaves the slice alone and stays in
\* the collect loop.
C5_ErrorStep ==
    (pc = "collect" /\ results # <<>> /\ Head(results).err /\ collected' = collected + 1)
        => (grounding' = grounding /\ pc' = "collect")

\* C5: draining an error result changes no URL and does not end the loop,
\* and after a full drain every probe that was answered is applied, whatever
\* happened to the others.
C5_ErrorIsNotFatal ==
    /\ [][C5_ErrorStep]_vars
    /\ [](Returned /\ ~timedOut =>
            \A k \in Indices :
                (answer[k].kind = "response" /\ ~resolveOriginURL(orig[k].URL, answer[k]).err)
                    => grounding[k].URL = resolveOriginURL(orig[k].URL, answer[k]).url)

\* The first probe failed and its result was drained; the second was
\* redirected and applied.
C5_Witness ==
    /\ Returned
    /\ Len(orig) = 2
    /\ answer[1] = TransportError /\ consumed[1] = 1
    /\ grounding[1].URL = "http://a"
    /\ orig[2].URL = "http://b" /\ grounding[2].URL = "http://b2"

\* With the scoped context done, a step of the collect loop consumes nothing
\* and writes nothing.
C6_StopStep ==
    (pc = "collect" /\ ResolveDone) => (collected' = collected /\ grounding' = grounding)

\* C6, as claimed: from the moment the scoped context is done the
\* orchestrator consumes no further result and writes no further URL.
C6_AsClaimed == [][C6_StopStep]_vars

\* After the Done case was taken no step consumes a result or writes a URL.
C6_AfterDoneCase ==
    timedOut => (collected' = collected /\ grounding' = grounding /\ pc' = "returned")

\* C6, amended: once the select has taken the Done case the orchestrator has
\* returned and consumes no result and writes no URL; it returns before
\* draining jobCount results only through the Done case, with the scoped
\* context done.
C6_StopsOnDoneCase ==
    /\ [][C6_AfterDoneCase]_vars
    /\ [](timedOut => Returned)
    /\ [](Returned /\ RanBatch /\ collected < jobCount => timedOut /\ BatchExpired)

\* The call returned through the Done case with a redirect result left
\* unread in the queue, its attribution still holding the original URL.
C6_Witness ==
    /\ Returned
    /\ timedOut
    /\ \E r \in 1..Len(results) :
          /\ ~results[r].err
          /\ results[r].url # orig[results[r].index].URL
          /\ grounding[results[r].index].URL = orig[results[r].index].URL

\* C7: only URL fields change: the sequence keeps its length and order, and
\* each attribution its title, domain and segments.
C7_OnlyURLsChange ==
    /\ Len(grounding) = Len(orig)
    /\ \A k \in Indices :
          /\ grounding[k].Title = orig[k].Title
          /\ grounding[k].Domain = orig[k].Domain
          /\ grounding[k].Segments = orig[k].Segments

\* The call returned with a URL overwritten.
C7_Witness ==
    /\ Returned
    /\ \E k \in Indices : grounding[k].URL # orig[k].URL

\* What the claim expects at a position whose probe was answered: the
\* location for a 3xx answer carrying one, the original URL otherwise.
Expected(u, out) ==
    IF u = "" THEN ""
    ELSE IF out.status \in 300..399 /\ out.loc = "target" THEN Location(u)
    ELSE u

\* C8: with an ample deadline and every probe answered, the call returns with
\* each URL as expected from its probe's answer.
C8_ResolvedAsAnswered ==
    (/\ Returned
     /\ ~timedOut
     /\ \A k \in Indices : orig[k].URL # "" => answer[k].kind = "response")
        => \A k \in Indices : grounding[k].URL = Expected(orig[k].URL, answer[k])

\* The scenario: [a, b, ""], a redirected to a2, b answering 200.
C8_Witness ==
    /\ Returned
    /\ ~timedOut
    /\ Len(orig) = 3
    /\ [k \in 1..3 |-> orig[k].URL] = Scenario
    /\ answer[1] = Response(302, "target")
    /\ answer[2] = Response(200, "absent")
    /\ [k \in 1..3 |-> grounding[k].URL] = <<"http://a2", "http://b", "">>

\* C9: never a probe for an empty URL, never two for one attribution, and
\* with an ample deadline exactly one for each non-empty URL.
C9_OneProbePerURL ==
    /\ \A k \in Indices : probed[k] <= 1
    /\ \A k \in Indices : orig[k].URL = "" => probed[k] = 0
    /\ (Returned /\ RanBatch /\ ~timedOut) =>
          \A k \in Indices : orig[k].URL # "" => probed[k] = 1

\* The scenario returned: two probes, none for the empty URL.
C9_Witness ==
    /\ Returned
    /\ ~timedOut
    /\ Len(orig) = 3
    /\ probed = <<1, 1, 0>>

\* C10: the scoped deadline is never later than the parent's, and with 20
\* seconds or less remaining (exactly 20 and an expired deadline included)
\* the parent context is reused as it is.
C10_NeverExtendsDeadline ==
    (pc = "start" /\ parentDeadline.ok) =>
        /\ resolveDeadline.ok
        /\ resolveDeadline.at <= parentDeadline.at
        /\ (parentDeadline.at - now <= 20) =>
              (resolveDeadline = parentDeadline /\ ~ownTimer)

\* A parent with exactly 20 seconds remaining, reused.
C10_Witness ==
    /\ pc = "start"
    /\ parentDeadline.ok
    /\ parentDeadline.at - now = 20
    /\ resolveDeadline = parentDeadline

\* C11: a parent deadline more than 20 seconds away gives a scoped context
\* of its own whose deadline is 20 seconds after the allocation, strictly
\* before the parent's.
C11_CapsAtTwenty ==
    (pc = "start" /\ parentDeadline.ok /\ parentDeadline.at - now > 20) =>
        /\ ownTimer
        /\ resolveDeadline = Deadline(now + 20)
        /\ resolveDeadline.at < parentDeadline.at

\* A parent with 21 seconds remaining, capped one second short.
C11_Witness ==
    /\ pc = "start"
    /\ parentDeadline.ok
    /\ parentDeadline.at - now = 21
    /\ resolveDeadline.at = parentDeadline.at - 1

\* C12: a parent without a deadline gives a scoped deadline 15 seconds after
\* the allocation, and whatever the parent, the batch has a deadline.
C12_DefaultFifteen ==
    pc = "start" =>
        /\ resolveDeadline.ok
        /\ ~parentDeadline.ok => (ownTimer /\ resolveDeadline = Deadline(now + 15))

\* A parent without a deadline, the batch allocated at time 2 until 17.
C12_Witness ==
    /\ pc = "start"
    /\ ~parentDeadline.ok
    /\ now = 2
    /\ resolveDeadline = Deadline(17)

\* C13: the cancel function has been invoked, once, whenever a call that
\* allocated it has returned, and not before the return.
C13_CancelOnEveryExit ==
    /\ (Returned /\ RanBatch) => cancelCalls = 1
    /\ (Returned /\ RanBatch /\ ownTimer) => cancelled
    /\ ~Returned => (cancelCalls = 0 /\ ~cancelled)

\* The call left through the Done case of a context of its own, cancel run.
C13_Witness ==
    /\ Returned
    /\ timedOut
    /\ ownTimer
    /\ cancelCalls = 1
    /\ cancelled

\* The workers holding the result of a call of resolveOriginURL that has
\* returned, and what the host had answered to that call.
Sending == { w \in Workers : worker[w].st = "sending" }
AnswerOf(w) == answer[worker[w].job.index]
Is3xx(out) == out.kind = "response" /\ out.status \in 300..399
\* The Location header of an answer as an absolute URL.
LocationOf(u, out) == IF out.loc = "relative" THEN Relative(u) ELSE Location(u)

\* C16 as stated: every 3xx answer carrying a Location header gives that
\* location and no error.
C16_AsClaimed ==
    \A w \in Sending :
        (Is3xx(AnswerOf(w)) /\ AnswerOf(w).loc # "absent") =>
            /\ ~worker[w].res.err
            /\ worker[w].res.url = LocationOf(worker[w].job.url, AnswerOf(w))

\* C16: one probe per call, and a 3xx answer whose Location header parses
\* gives that location, one hop and no further, with no error; a Location
\* header that does not parse gives an error and the empty URL.
C16_OneHop ==
    /\ \A k \in DOMAIN probed : probed[k] <= 1
    /\ \A w \in Sending :
        Is3xx(AnswerOf(w)) =>
            /\ AnswerOf(w).loc \in {"target", "relative"} =>
                  /\ ~worker[w].res.err
                  /\ worker[w].res.url = LocationOf(worker[w].job.url, AnswerOf(w))
            /\ AnswerOf(w).loc = "malformed" =>
                  (worker[w].res.err /\ worker[w].res.url = "")

\* A 300 answer pointing at a2, which itself would redirect further: a2 is
\* the result.
C16_Witness ==
    \E w \in Sending :
        /\ worker[w].job.url = "http://a"
        /\ AnswerOf(w) = Response(300, "target")
        /\ worker[w].res = [index |-> 1, url |-> "http://a2", err |-> FALSE]
        /\ Location("http://a2") # "http://a2"
        /\ probed[1] = 1

\* C17: a 3xx answer without a Location header gives the original URL and no
\* error, and the orchestrator receives it as a success: the URL stays.
C17_MissingLocationIsSuccess ==
    /\ \A w \in Sending :
        (Is3xx(AnswerOf(w)) /\ AnswerOf(w).loc = "absent") =>
            (~worker[w].res.err /\ worker[w].res.url = worker[w].job.url)
    /\ \A n \in 1..Len(results) :
        (Is3xx(answer[results[n].index]) /\ answer[results[n].index].loc = "absent") =>
            (~results[n].err /\ results[n].url = orig[results[n].index].URL)
    /\ (pc = "returned" /\ ~timedOut /\ Len(orig) > 0
        /\ \A k \in DOMAIN orig : Is3xx(answer[k]) /\ answer[k].loc = "absent")
          => \A k \in DOMAIN orig : grounding[k].URL = orig[k].URL

\* A 399 answer without a Location header, consumed as a success.
C17_Witness ==
    /\ pc = "returned"
    /\ ~timedOut
    /\ answer[1] = Response(399, "absent")
    /\ consumed[1] = 1
    /\ grounding[1].URL = "http://b"

\* C18: an answer outside the 3xx class gives the input URL and no error,
\* whatever its headers, and a batch over URLs that do not redirect changes
\* nothing.
C18_IdempotentOnNonRedirect ==
    /\ \A w \in Sending :
        (AnswerOf(w).kind = "response" /\ ~Is3xx(AnswerOf(w))) =>
            (~worker[w].res.err /\ worker[w].res.url = worker[w].job.url)
    /\ (pc = "returned"
        /\ \A k \in DOMAIN orig : answer[k].kind = "response" => ~Is3xx(answer[k]))
          => grounding = orig

\* A 200 answer that carries a Location header all the same; the batch
\* returned with the URL it started with.
C18_Witness ==
    /\ pc = "returned"
    /\ ~timedOut
    /\ answer[1] = Response(200, "target")
    /\ consumed[1] = 1
    /\ grounding[1].URL = "http://a"

\* C19: a call whose request failed (not built, connection error, timeout,
\* cancelled context) returns an error and the empty URL; no result carries
\* an error and a URL, and none without an error comes from a failed request.
C19_FailureIsErrorAndEmpty ==
    /\ \A w \in Sending :
        /\ AnswerOf(w).kind = "error" => (worker[w].res.err /\ worker[w].res.url = "")
        /\ worker[w].job.url = BadURL => worker[w].res.err
        /\ worker[w].res.err => worker[w].res.url = ""
    /\ \A n \in 1..Len(results) :
        /\ results[n].err => results[n].url = ""
        /\ ~results[n].err => answer[results[n].index].kind = "response"

\* A probe cut short by the caller's cancellation: an error result.
C19_Witness ==
    \E w \in Sending :
        /\ parentCancelled
        /\ AnswerOf(w) = TransportError
        /\ worker[w].res = [index |-> 1, url |-> "", err |-> TRUE]

\* What processGenaiResponse returns as far as the generation call and the
\* attributions handed over decide it: the early errors, then
\* ErrNoContentGenerated for no text and no attribution, else a response.
OutcomeOf(c, g) ==
    IF EarlyError(c) # "nil" THEN [kind |-> "error", err |-> EarlyError(c)]
    ELSE IF c.text = "" /\ Len(g) = 0
         THEN [kind |-> "error", err |-> "ErrNoContentGenerated"]
         ELSE [kind |-> "response", err |-> ""]

\* C14: whether processGenaiResponse returns a response or an error, and which
\* error, is decided by the generation call and the attributions handed over,
\* not by the probes or the batch deadline; a response carries the text and
\* the attributions, which differ from those handed over in URL values only.
C14_ProbesNeverSurface ==
    pc = "done" =>
        /\ [kind |-> ret.kind, err |-> ret.err] = OutcomeOf(call, orig)
        /\ ret.kind = "response" =>
              /\ ret.text = call.text
              /\ Len(ret.attributions) = Len(orig)
              /\ \A k \in DOMAIN orig :
                    [ret.attributions[k] EXCEPT !.URL = orig[k].URL] = orig[k]

\* A response returned although a probe failed and the batch ran into its
\* deadline with the other probe unanswered.
C14_Witness ==
    /\ pc = "done"
    /\ ret.kind = "response"
    /\ timedOut
    /\ Len(orig) = 2
    /\ answer[1] = TransportError
    /\ answer[2] = NoAnswer

\* The generation call was successful as far as processGenaiResponse checks
\* before it resolves the URLs.
CallSucceeded == EarlyError(call) = "nil"

\* C15 as stated: at most one invocation, only with NoRedirection, and none
\* when processGenaiResponse returns an error.
C15_AsClaimed ==
    /\ invoked <= 1
    /\ invoked = 1 => call.noRedirection
    /\ (pc = "done" /\ ret.kind = "error") => invoked = 0

\* C15: at most one invocation, only with NoRedirection and only after every
\* check of the generation call has passed; the one error returned after an
\* invocation is ErrNoContentGenerated for an empty text with no attribution,
\* where the orchestrator was given the empty sequence and did nothing.
C15_InvokedOncePerSuccess ==
    /\ invoked <= 1
    /\ invoked = 1 => (call.noRedirection /\ CallSucceeded)
    /\ (pc = "done" /\ ret.kind = "error" /\ invoked = 1) =>
          /\ ret.err = "ErrNoContentGenerated"
          /\ call.text = ""
          /\ Len(orig) = 0
          /\ cancelCalls = 0
    /\ (pc = "done" /\ ret.kind = "response") =>
          invoked = (IF call.noRedirection THEN 1 ELSE 0)
    /\ invoked = 0 => (pc \in {"process", "respond", "done"} /\ grounding = orig
                       /\ \A k \in DOMAIN probed : probed[k] = 0)

\* A response whose URL was resolved by the one invocation.
C15_Witness ==
    /\ pc = "done"
    /\ ret.kind = "response"
    /\ invoked = 1
    /\ call.noRedirection
    /\ Len(orig) = 1
    /\ ret.attributions[1].URL = "http://a2"

\* C20: the caller's client is as it was built, whatever probes have been
\* sent, and each probe went out with a client of the caller's transport, the
\* 3 second timeout and the policy that hands back the first response.
C20_CustomClientReusedNotMutated ==
    ~httpClient.isNil =>
        /\ httpClient = CustomClient
        /\ \A k \in DOMAIN clients :
              /\ probed[k] > 0 =>
                    /\ clients[k].Transport = CustomClient.Transport
                    /\ clients[k].Timeout = 3
                    /\ clients[k].CheckRedirect = "ErrUseLastResponse"
                    /\ clients[k] # httpClient
              /\ probed[k] = 0 => clients[k] = NoClient

\* Two probes in flight at once, both sent with the caller's transport.
C20_Witness ==
    /\ httpClient = CustomClient
    /\ Cardinality({ w \in Workers : worker[w].st = "probing" }) = 2
    /\ \A k \in 1..2 : probed[k] = 1 /\ clients[k].Transport = "callerTransport"

\* The indices whose call of resolveOriginURL has begun and has not returned.
InFlight == { k \in DOMAIN probed : probed[k] > 0 /\ answer[k] = NoAnswer }
Started == { w \in Workers : worker[w].st # "unstarted" }

\* C21: a batch starts exactly 8 workers, and never more than 8 calls of the
\* resolver are in flight, also with more jobs than workers.
C21_PoolBounded ==
    /\ Cardinality(InFlight) <= 8
    /\ pc \in {"entry", "start"} => Started = {}
    /\ (RanBatch /\ pc \notin {"entry", "start"}) => Cardinality(Started) = 8

\* Eight probes in flight while a ninth job waits in the queue.
C21_Witness ==
    /\ Len(orig) > 8
    /\ Cardinality(InFlight) = 8
    /\ Len(jobs) >= 1

\* The longest and the summed duration of the batch's probes, and the number
\* of rounds the pool needs for the jobs.
Probed == { k \in DOMAIN orig : orig[k].URL # "" }
RECURSIVE SumTime(_)
SumTime(S) ==
    IF S = {} THEN 0
    ELSE LET k == CHOOSE x \in S : TRUE IN ProbeTime(k) + SumTime(S \ {k})
Slowest == CHOOSE t \in { ProbeTime(k) : k \in Probed } :
               \A k \in Probed : ProbeTime(k) <= t
Rounds == (jobCount + numWorkers - 1) \div numWorkers
Drained == pc = "returned" /\ ~timedOut /\ Len(orig) > 0

\* C22 as stated: for every number of URLs the batch is over within the
\* slowest probe's time.
C22_AsClaimed ==
    Drained => now <= Slowest

\* C22: with no more URLs than workers the batch is over after the slowest
\* probe's time; with more, after at most that time for each round of 8, and
\* with two or more URLs always before the sum of the probe times.
C22_BoundedBySlowestPerRound ==
    Drained =>
        /\ now <= Rounds * Slowest
        /\ jobCount <= numWorkers => now <= Slowest
        /\ jobCount >= 2 => now < SumTime(Probed)

\* Eight URLs with latencies of 1, 2 and 3 seconds (15 seconds in sum)
\* resolved after 3 seconds.
C22_Witness ==
    /\ Drained
    /\ jobCount = 8
    /\ now = 3
    /\ SumTime(Probed) = 15
    /\ \A k \in DOMAIN orig : consumed[k] = 1

\* The results a job has produced so far (received or still in the channel),
\* and the workers holding the job.
Emitted(k) ==
    consumed[k] + Cardinality({ n \in 1..Len(results) : results[n].index = k })
Holding(k) ==
    { w \in Workers : worker[w].st \in {"probing", "sending"} /\ worker[w].job.index = k }
Slots == 1..2

\* C23: a job taken by a worker is held by one worker or has produced one
\* result with its index, never two and never none; every taken job comes to
\* its result, and every worker of a batch returns once the queue is closed
\* and empty.
C23_OneResultPerJob ==
    /\ [](\A k \in DOMAIN probed :
            /\ probed[k] = Emitted(k) + Cardinality(Holding(k))
            /\ Emitted(k) <= 1)
    /\ \A k \in Slots : (k \in DOMAIN probed /\ probed[k] = 1)
                            ~> (k \in DOMAIN probed /\ Emitted(k) = 1)
    /\ (jobsClosed /\ jobs = <<>>) ~> (\A w \in Workers : worker[w].st = "exited")

\* Both jobs answered with an error, both results produced, every worker
\* returned.
C23_Witness ==
    /\ Len(orig) = 2
    /\ \A k \in 1..2 : answer[k] = TransportError /\ Emitted(k) = 1
    /\ \A w \in Workers : worker[w].st = "exited"

\* The result of job k, once produced, is an error result.
ErrorResult(k) ==
    /\ Emitted(k) = 1
    /\ answer[k] = TransportError
    /\ \A n \in 1..Len(results) : results[n].index = k =>
          (results[n].err /\ results[n].url = "")

\* C24: a call of the resolver that is in flight when the scoped context is
\* done returns, and its worker emits the job's result, an error result.
C24_CancelledProbeStillAnswers ==
    \A k \in Slots :
        (k \in DOMAIN probed /\ k \in InFlight /\ ResolveDone)
            ~> (k \in DOMAIN probed /\ ErrorResult(k))

\* The caller cancelled while a request was out; the job's error result is
\* in the channel.
C24_Witness ==
    /\ parentCancelled
    /\ wired[1]
    /\ ErrorResult(1)
    /\ consumed[1] = 0

\* C25 as stated: no call of the resolver begins once the scoped context is
\* done, so every call for a URL that parses sent its request.
C25_AsClaimed ==
    \A k \in DOMAIN probed : (probed[k] > 0 /\ orig[k].URL # BadURL) => wired[k]

\* A step in which a request goes out.
C25_WireStep ==
    \A k \in DOMAIN wired : (wired'[k] /\ ~wired[k]) => ~ResolveDone

\* C25: no request goes out once the scoped context is done.  A worker that
\* takes a job after that moment still calls the resolver, and that call
\* fails without a request: an error, and the attribution's URL stays.
C25_NoRequestAfterDone ==
    /\ [][C25_WireStep]_vars
    /\ [](\A k \in DOMAIN probed :
            (probed[k] > 0 /\ ~wired[k]) =>
                /\ answer[k] \in {NoAnswer, TransportError}
                /\ grounding[k].URL = orig[k].URL)

\* A job taken after the caller's cancellation: the resolver was called, no
\* request was sent, the result is an error.
C25_Witness ==
    /\ Len(orig) > 0
    /\ orig[1].URL = "http://a"
    /\ parentCancelled
    /\ probed[1] = 1
    /\ ~wired[1]
    /\ answer[1] = TransportError

\* C26 as stated: at the return no worker is running and no job or result is
\* pending.
C26_AsClaimed ==
    Returned =>
        /\ \A w \in Workers : worker[w].st \in {"unstarted", "exited"}
        /\ jobs = <<>>
        /\ results = <<>>

\* No worker holds a job: each waits at "range jobs" or has returned.
NoWorkerBusy == \A w \in Workers : worker[w].st \in {"ready", "exited"}

\* C26: at a return after the full drain no job or result is pending and no
\* worker holds a job; at every return of a batch the job queue is closed, and
\* after it the workers finish by themselves: the queue empties and every
\* worker returns, while results left in the channel are never received.
C26_BatchWindsDown ==
    /\ []((Returned /\ RanBatch /\ ~timedOut) =>
            (jobs = <<>> /\ results = <<>> /\ NoWorkerBusy))
    /\ []((Returned /\ RanBatch) => jobsClosed)
    /\ [][Returned => results' = results \/ Len(results') = Len(results) + 1]_vars
    /\ (Returned /\ RanBatch)
          ~> (jobs = <<>> /\ \A w \in Workers : worker[w].st = "exited")

\* The call has returned on the deadline with one probe still in flight and
\* the other's result still in the channel.
C26_Witness ==
    /\ Returned
    /\ timedOut
    /\ Len(results) = 1
    /\ Cardinality({ w \in Workers : worker[w].st = "probing" }) = 1

\* A step that changes the slice is one iteration of the orchestrator's
\* collect loop and no step of a worker; after the return nothing changes it.
C27_SliceStep ==
    /\ grounding' # grounding =>
          /\ pc = "collect"
          /\ pc' = "collect"
          /\ collected' = collected + 1
          /\ Len(results') = Len(results) - 1
          /\ worker' = worker
    /\ worker' # worker => grounding' = grounding
    /\ Returned => grounding' = grounding

\* C27: the slice is written by the orchestrator only, in its collect loop,
\* never by a worker and never after the return, also when results are
\* still to come.
C27_OnlyOrchestratorWrites == [][C27_SliceStep]_vars

\* The call has returned on the deadline while the result of a redirect was
\* still in the channel: the URL is as it was.
C27_Witness ==
    /\ Returned
    /\ timedOut
    /\ \E n \in 1..Len(results) :
          /\ ~results[n].err
          /\ results[n].url = "http://a2"
          /\ grounding[results[n].index].URL = "http://a"

\* How many jobs, held jobs and results carry index k.
Queued(k) == Cardinality({ n \in 1..Len(jobs) : jobs[n].index = k })
Carried(k) == Queued(k) + Cardinality(Holding(k)) + Emitted(k)

\* A step that overwrites the URL at k is the first receipt of a result for k.
C28_OverwriteStep ==
    \A k \in DOMAIN grounding :
        grounding'[k].URL # grounding[k].URL => (consumed[k] = 0 /\ consumed'[k] = 1)

\* C28: of the jobs queued, held and answered in one batch no two carry the
\* same index, and each URL is overwritten at most once in the call.
C28_DistinctJobIndices ==
    /\ [](\A k \in DOMAIN orig : Carried(k) <= 1)
    /\ [](\A n \in 1..Len(jobs) : jobs[n] = [index |-> jobs[n].index,
                                             url |-> orig[jobs[n].index].URL])
    /\ [][C28_OverwriteStep]_vars

\* A batch of two attributions has returned with each URL overwritten by the
\* one result received for its index.
C28_Witness ==
    /\ Len(orig) = 2
    /\ Returned
    /\ \A k \in 1..2 : consumed[k] = 1 /\ grounding[k].URL # orig[k].URL

\* The attributions with a URL.
NonEmpty == { k \in DOMAIN orig : orig[k].URL # "" }

\* C29: an attribution with an empty URL has no job, no probe, no result and
\* no write; the results waited for are as many as the non-empty URLs; and a
\* batch of empty URLs only returns through the end of the loop, unchanged.
C29_EmptyURLsSkipped ==
    /\ \A k \in DOMAIN orig \ NonEmpty :
          /\ Carried(k) = 0
          /\ probed[k] = 0
          /\ grounding[k] = orig[k]
    /\ (RanBatch /\ pc \in {"collect", "returned"}) => jobCount = Cardinality(NonEmpty)
    /\ pc = "send" => jobCount = Cardinality({ k \in NonEmpty : k < i })
    /\ (Returned /\ RanBatch /\ NonEmpty = {}) =>
          (~timedOut /\ collected = 0 /\ grounding = orig /\ cancelCalls = 1)

\* Two empty URLs under a parent whose deadline has passed: the call has
\* returned through the end of the loop, not through the Done case.
C29_Witness ==
    /\ Returned
    /\ Len(orig) = 2
    /\ NonEmpty = {}
    /\ ResolveDone
    /\ parentDeadline = Deadline(0)
    /\ ~timedOut

\* C30: on the empty sequence the call goes from its entry to its return and
\* nothing else: no scoped context and no cancel, no channel, no worker, no
\* probe.
C30_EmptyIsNoOp ==
    Len(orig) = 0 =>
        /\ pc \in {"entry", "returned"}
        /\ grounding = orig
        /\ resolveDeadline = NoDeadline
        /\ ~ownTimer
        /\ cancelCalls = 0
        /\ ~cancelled
        /\ chanCap = 0
        /\ jobs = <<>> /\ results = <<>> /\ ~jobsClosed
        /\ \A w \in Workers : worker[w] = Idle
        /\ now = 0

\* The empty sequence under a parent without a deadline: returned, with no
\* scoped deadline made.
C30_Witness ==
    /\ Len(orig) = 0
    /\ Returned
    /\ ~parentDeadline.ok
    /\ resolveDeadline = NoDeadline

\* A step that puts a job into the queue: the workers run and the queue is
\* open, before and after.
C31_SubmitStep ==
    Len(jobs') > Len(jobs) =>
        /\ ~jobsClosed /\ ~jobsClosed'
        /\ \A w \in Workers : worker[w].st # "unstarted"

\* A step that closes the queue: it was open, the send loop has passed the
\* last attribution, and nothing has been received yet.
C31_CloseStep ==
    jobsClosed' # jobsClosed =>
        /\ ~jobsClosed /\ jobsClosed'
        /\ pc = "send" /\ pc' = "collect"
        /\ i > Len(grounding)
        /\ jobCount = Cardinality(NonEmpty)
        /\ \A k \in DOMAIN consumed : consumed[k] = 0

\* C31: in a non-empty batch the workers are started before the first job is
\* submitted, every job is submitted while the queue is open, the queue is
\* closed once, after the last job and before the first result is received,
\* also when no job was submitted.
C31_StartSubmitClose ==
    /\ [](RanBatch => /\ (pc = "send" => ~jobsClosed)
                      /\ (pc \in {"collect", "returned"} => jobsClosed)
                      /\ (pc \in {"send", "collect", "returned"} =>
                             \A w \in Workers : worker[w].st # "unstarted")
                      /\ (~jobsClosed => \A k \in DOMAIN consumed : consumed[k] = 0))
    /\ [][C31_SubmitStep]_vars
    /\ [][C31_CloseStep]_vars
    /\ [][jobsClosed => jobsClosed' /\ Len(jobs') <= Len(jobs)]_vars

\* The section 8 scenario has returned: two jobs were submitted and received,
\* and the queue is closed.
C31_Witness ==
    /\ Len(orig) = 3
    /\ Returned
    /\ jobsClosed
    /\ jobCount = 2
    /\ collected = 2

\* The indices whose call of resolveOriginURL is running.
Running == { worker[w].job.index : w \in { v \in Workers : worker[v].st = "probing" } }

\* C32: a call of resolveOriginURL that is running started at most ProbeTimeout
\* seconds ago, whatever the batch deadline, and a host slower than that has
\* cost its worker a transport error, not a longer wait.
C32_ProbeEndsWithinTimeout ==
    /\ \A k \in Running : now <= startedAt[k] + ProbeTimeout
    /\ \A k \in DOMAIN orig :
          (answer[k] # NoAnswer /\ latency[k] > ProbeTimeout) => answer[k] = TransportError

\* A host that takes 5 seconds: its probe has ended with a transport error 3
\* seconds after its start, the batch deadline being still ahead.
C32_Witness ==
    \E k \in DOMAIN orig :
        /\ latency[k] > ProbeTimeout
        /\ wired[k]
        /\ answer[k] = TransportError
        /\ now = startedAt[k] + ProbeTimeout
        /\ ~ResolveDone
        /\ resolveDeadline.at > now + ProbeTimeout

\* The outcomes of a probe that fails, and those that are no redirect.
Failing == { out \in AllOutcomes : out.kind = "error" }
NonRedirect == { out \in AllOutcomes : out.kind = "response" /\ ~Is3xx(out) }

\* The slice after the orchestrator has received the result of job from a
\* probe sent with client cl that ended with out.
After(g, job, cl, out) ==
    WriteBack(g, MakeResult(job, resolveOriginURL(job.url, ClientDo(cl, out))))

\* The receipt of a result moves the orchestrator on in the same way whatever
\* the result holds.
C33_ReceiptStep ==
    consumed' # consumed =>
        /\ pc' = pc
        /\ collected' = collected + 1
        /\ timedOut' = timedOut
        /\ cancelCalls' = cancelCalls

\* C33: let two runs agree up to a probe that fails in one and is answered
\* with a non-redirect in the other; then the slice after the receipt of its
\* result is the same in both, namely as it was; a position whose probe ended
\* either way holds its original attribution; and the orchestrator's next
\* position does not depend on the result received.
C33_FailureLooksLikeSameURL ==
    /\ [](\A w \in Workers : worker[w].st = "probing" =>
            \A f \in Failing, n \in NonRedirect :
                /\ After(grounding, worker[w].job, clients[worker[w].job.index], f)
                     = After(grounding, worker[w].job, clients[worker[w].job.index], n)
                /\ After(grounding, worker[w].job, clients[worker[w].job.index], n)
                     = grounding)
    /\ [](\A k \in DOMAIN orig :
            answer[k] \in Failing \cup NonRedirect => grounding[k] = orig[k])
    /\ [][C33_ReceiptStep]_vars

\* One probe failed, the other was answered 200, both results were received:
\* the caller finds both attributions as it passed them.
C33_Witness ==
    /\ Returned
    /\ ~timedOut
    /\ Len(orig) = 2
    /\ answer[1] = TransportError /\ consumed[1] = 1
    /\ answer[2] = Response(200, "absent") /\ consumed[2] = 1
    /\ grounding = orig

\* The lines of the log about position k, and those about the deadline.
FailedLines(k) ==
    { n \in 1..Len(warnings) :
        warnings[n] = [msg |-> "failed to resolve origin URL", index |-> k, err |-> TRUE] }
TimedOutLines == { n \in 1..Len(warnings) : warnings[n] = TimedOutLine }

\* What resolveOriginURL gave for position k, its probe having ended.
Resolved(k) == resolveOriginURL(orig[k].URL, ClientDo(clients[k], answer[k]))

\* The receipt of an error result appends one line with the result's index
\* and error; the receipt of any other result appends nothing; leaving through
\* the Done case appends the line about the deadline; no other step logs.
C34_LogStep ==
    /\ (consumed' # consumed /\ Head(results).err) =>
          warnings' = Append(warnings,
                             [msg |-> "failed to resolve origin URL",
                              index |-> Head(results).index, err |-> TRUE])
    /\ (consumed' # consumed /\ ~Head(results).err) => warnings' = warnings
    /\ (timedOut' /\ ~timedOut) => warnings' = Append(warnings, TimedOutLine)
    /\ warnings' # warnings => (consumed' # consumed \/ (timedOut' /\ ~timedOut))

\* C34: the log holds one line per error result the orchestrator received,
\* with the index of its job, none for any other position, and one line about
\* the deadline exactly when the call left through the Done case.
C34_WarningsAsDrained ==
    /\ [](\A k \in DOMAIN orig :
            Cardinality(FailedLines(k)) =
                IF consumed[k] = 1 /\ Resolved(k).err THEN 1 ELSE 0)
    /\ [](Cardinality(TimedOutLines) = IF timedOut THEN 1 ELSE 0)
    /\ [](Len(warnings) = Cardinality(TimedOutLines)
                            + Cardinality(UNION { FailedLines(k) : k \in DOMAIN orig }))
    /\ [][C34_LogStep]_vars

\* The first URL was redirected and applied without a line; the second
\* probe failed, and its result was received and logged with index 2.
C34_Witness ==
    /\ Returned
    /\ Len(orig) = 2
    /\ answer[1] = Response(302, "target") /\ consumed[1] = 1
    /\ answer[2] = TransportError /\ consumed[2] = 1
    /\ warnings = <<[msg |-> "failed to resolve origin URL", index |-> 2, err |-> TRUE]>>

\* The results of the batch that are not with the orchestrator: those in the
\* channel and those still to come.
Outstanding ==
    Len(results) + Len(jobs) + Cardinality(Busy(worker))

\* C35: both channels have the capacity of the slice's length, which bounds
\* the jobs; the send of a job and the send of a result always find room, the
\* latter also after the orchestrator has returned; and the orchestrator
\* reaches close(jobs) whether or not any worker moves.
C35_SendsNeverBlock ==
    /\ [](pc \in {"send", "collect", "returned"} /\ RanBatch =>
            /\ chanCap = Len(orig)
            /\ jobCount <= chanCap
            /\ Len(jobs) + Len(results) <= chanCap
            /\ Outstanding + collected <= chanCap)
    /\ [](pc = "send" /\ i <= Len(grounding) => Len(jobs) < chanCap)
    /\ [](\A w \in Workers : worker[w].st = "sending" => Len(results) < chanCap)
    /\ (pc = "start" ~> jobsClosed)

\* The orchestrator has left through the Done case with one result unread in
\* the channel, and a worker is about to send the other: there is room.
C35_Witness ==
    /\ Returned
    /\ timedOut
    /\ chanCap = 2
    /\ Len(results) = 1
    /\ \E w \in Workers : worker[w].st = "sending"

\* Every goroutine of the pool has returned.
AllExited == \A w \in Workers : worker[w].st = "exited"

\* Every job submitted was taken and has its result, received or left in the
\* channel.
AllDelivered ==
    /\ jobs = <<>>
    /\ \A k \in DOMAIN orig :
          /\ probed[k] = (IF orig[k].URL # "" THEN 1 ELSE 0)
          /\ Emitted(k) = probed[k]
    /\ Len(results) = jobCount - collected

\* C36: a worker with a result can always send it and a worker at a closed
\* queue can always take a job or return; on either way out of the
\* orchestrator the workers of the batch all return and stay returned: after the return through the Done case the jobs
\* left in the closed queue are taken, their probes end and their results go
\* into the channel, where they stay.
C36_NoWorkerLeft ==
    /\ [](\A w \in Workers : worker[w].st = "sending" => ENABLED WorkerSend(w))
    /\ [](\A w \in Workers :
            (IsNextReady(w) /\ jobsClosed) => ENABLED (WorkerTake(w) \/ WorkerExit(w)))
    /\ <>[]AllExited
    /\ ((Returned /\ timedOut) ~> (AllExited /\ AllDelivered))
    /\ ((Returned /\ ~timedOut) ~> (AllExited /\ results = <<>>))

\* The orchestrator left through the Done case; since then every worker has
\* returned, and the results it did not read are in the channel.
C36_Witness ==
    /\ Returned
    /\ timedOut
    /\ AllExited
    /\ AllDelivered
    /\ Len(results) = 2

\* createResolveContext took its last branch: the context it was given has no
\* deadline, and the batch got the default budget.
DefaultBranch == resolveDeadline.ok /\ ~parentDeadline.ok

\* C37: a deadline of the caller's context is the deadline of the context
\* used throughout; without one, a positive RequestTimeout gives the deadline
\* and a RequestTimeout of 0 gives none; the generation call and the batch both
\* end by that deadline; and the batch gets the default budget of
\* DefaultSeconds only without a caller's deadline and with RequestTimeout 0.
C37_RequestTimeoutOnlyWithoutDeadline ==
    /\ callerDeadline.ok => parentDeadline = callerDeadline
    /\ (pc # "generate" /\ ~callerDeadline.ok) =>
          parentDeadline = (IF requestTimeout > 0 THEN Deadline(requestTimeout)
                            ELSE NoDeadline)
    /\ (pc \in {"process", "entry"} /\ parentDeadline.ok) => now <= parentDeadline.at
    /\ (resolveDeadline.ok /\ parentDeadline.ok) =>
          resolveDeadline.at <= parentDeadline.at
    /\ DefaultBranch => (requestTimeout = 0 /\ ~callerDeadline.ok)
    /\ (resolveDeadline.ok /\ requestTimeout = 0 /\ ~callerDeadline.ok) =>
          (ownTimer /\ resolveDeadline.at - DefaultSeconds \in GenerationTimes)
    /\ (resolveDeadline.ok /\ ~DefaultBranch) =>
          \/ ~ownTimer /\ resolveDeadline = parentDeadline
          \/ ownTimer /\ resolveDeadline.at - CapSeconds \in GenerationTimes

\* A caller without a deadline and the default RequestTimeout: the context
\* ends at 60, the generation took 5 seconds, and the batch ran under the cap
\* of 20 seconds from then, not under the default.
C37_Witness ==
    /\ ~callerDeadline.ok
    /\ requestTimeout = DefaultRequestTimeout
    /\ parentDeadline = Deadline(DefaultRequestTimeout)
    /\ resolveDeadline = Deadline(5 + CapSeconds)
    /\ Returned

\* A result is an error without a URL or a URL without an error.
WellFormed(result) ==
    \/ result.err /\ result.url = ""
    \/ ~result.err /\ result.url # ""

\* The results the workers have made and the orchestrator has not received.
Unreceived ==
    { results[n] : n \in 1..Len(results) }
        \cup { worker[w].res : w \in { v \in Workers : worker[v].st = "sending" } }

\* The receipt of a result stores its URL at its index and logs nothing, or
\* logs one line and stores nothing.
C38_ReceiptStep ==
    consumed' # consumed =>
        LET result == Head(results)
        IN  \/ /\ ~result.err
               /\ grounding' = [grounding EXCEPT ![result.index].URL = result.url]
               /\ result.url # ""
               /\ warnings' = warnings
            \/ /\ result.err
               /\ grounding' = grounding
               /\ warnings' = Append(warnings, FailedLine(result))

\* C38: every result made by a worker is an error with the empty URL or a
\* non-empty URL without an error, so that each receipt either applies the
\* result or logs it.
C38_NoResultIgnored ==
    /\ [](\A result \in Unreceived : WellFormed(result))
    /\ [](\A out \in AllOutcomes, u \in (URLs \ {""}) \cup {BadURL} :
            WellFormed(resolveOriginURL(u, out)))
    /\ [][C38_ReceiptStep]_vars

\* A 3xx answer without a Location header: the result carried the original
\* URL, no error, and was applied without a line in the log.
C38_Witness ==
    /\ Returned
    /\ orig[1].URL = "http://a"
    /\ answer[1] = Response(302, "absent")
    /\ consumed[1] = 1
    /\ grounding[1].URL = "http://a"
    /\ warnings = <<>>

====
